---- MODULE Spec2Model ----
(***************************************************************************)
(* A model of the clustering workflow of relevanceai:                      *)
(*   ClusterOps (src/relevanceai/operations/cluster/cluster.py)            *)
(*   Transport.make_http_request (src/vecdb/transport.py)                  *)
(*   OperationManager (src/relevanceai/operations_new/manager.py)          *)
(*   ExtractNER.extract_ner (operations_new/processing/text/ner)           *)
(* and of the remote document / centroid store they talk to.               *)
(*                                                                         *)
(* Python values are encoded as follows.                                   *)
(*   Optional[x] : None is << >>, a value x is <<x>>.                      *)
(*   str values the code takes apart (model names, aliases, class          *)
(*     strings, labels) are sequences of one-character strings, so that    *)
(*     lower(), replace(), "in" and f-strings are computed, not assumed.   *)
(*   dataset ids and vector field names are atomic strings: the code only  *)
(*     passes them on.                                                     *)
(*   a nested field path "a.b.c" is the tuple <<a, b, c>>.                 *)
(*   a document is a function from field paths to values.                  *)
(***************************************************************************)
EXTENDS Integers, Sequences, FiniteSets, TLC

VARIABLES
    dicts,            \* heap of dict objects: reference -> contents
    inst,             \* ClusterOps instances: their attributes
    pc,               \* where each instance is: "unconstructed", "idle", or a step of operate
    loc,              \* operate's local variables, per instance
    calls,            \* remote calls issued by the current run of operate, per instance
    remoteDocs,       \* remote store: dataset -> documents
    remoteCentroids,  \* remote store: centroid records, keyed by dataset, vector field, alias, _id
    lastDocWriter,    \* the instance whose update_documents the store applied last (0: none)
    lastCentroidWriter, \* the instance whose centroid insert the store applied last (0: none)
    lastGood,         \* per instance: the centroid count its namespace held when its latest
                      \* run returned with both writes acknowledged, while no other instance
                      \* has written centroids since (None otherwise)
    docUtilsAsserts,  \* whether doc_utils checks len(values) = len(docs)
    caller,           \* per instance, what its caller did and saw: the constructor
                      \* arguments, the dataset and vector field the caller used last,
                      \* and the latest method call made since the latest operate
    mgr,              \* an OperationManager, the with-block it guards and a call of clean
    http,             \* a call of Transport.make_http_request and the answers it got
    ner               \* a call of ExtractNER.extract_ner

vars == <<dicts, inst, pc, loc, calls, remoteDocs, remoteCentroids,
          lastDocWriter, lastCentroidWriter, lastGood, docUtilsAsserts, caller,
          mgr, http, ner>>

----------------------------------------------------------------------------
(* Bounds *)

MaxDocs == 2
NumRetries == 2
MaxLabels == 3
MaxHooks == 2
MaxPairs == 2
MaxTokens == 3
FloatBits == 3

Insts == {1, 2}
Datasets == {"ds1", "ds2"}

----------------------------------------------------------------------------
(* Python values *)

None == << >>
Some(x) == <<x>>

NoAttr == << >>
Attr(v) == <<v>>
HasAttr(a) == a # NoAttr

S_kmeans == <<"k","m","e","a","n","s">>
S_K_Means == <<"K","_","M","e","a","n","s">>
S_not_a_real_model == <<"n","o","t","-","a","-","r","e","a","l","-","m","o","d","e","l">>
S_cluster_ == <<"c","l","u","s","t","e","r","-">>
S_outlier == <<"o","u","t","l","i","e","r">>
S_class_open == <<"<","c","l","a","s","s"," ","'">>
S_class_close == <<"'",">">>
S_sklearn == <<"s","k","l","e","a","r","n">>
S_faiss == <<"f","a","i","s","s">>
S_hdbscan == <<"h","d","b","s","c","a","n">>
S_function == <<"f","u","n","c","t","i","o","n">>
S_community_detection == <<"c","o","m","m","u","n","i","t","y","_","d","e","t","e","c","t","i","o","n">>
S_KMeansPath == <<"s","k","l","e","a","r","n",".","c","l","u","s","t","e","r",".","_","k","m","e","a","n","s",".","K","M","e","a","n","s">>
S_MyModelPath == <<"_","_","m","a","i","n","_","_",".","M","y","M","o","d","e","l">>
S_str == <<"s","t","r">>
S_a1 == <<"a","1">>
S_A2 == <<"A","2">>
S_a2 == <<"a","2">>
S_cluster_0 == <<"c","l","u","s","t","e","r","-","0">>
Uppers == <<"A","B","C","D","E","F","G","H","I","J","K","L","M","N","O","P","Q","R","S","T","U","V","W","X","Y","Z">>
Lowers == <<"a","b","c","d","e","f","g","h","i","j","k","l","m","n","o","p","q","r","s","t","u","v","w","x","y","z">>
Digits == <<"0","1","2","3","4","5","6","7","8","9">>

\* str.lower()
LowerChar(c) ==
    IF \E i \in 1..Len(Uppers) : Uppers[i] = c
    THEN Lowers[CHOOSE i \in 1..Len(Uppers) : Uppers[i] = c]
    ELSE c
Lower(s) == [i \in 1..Len(s) |-> LowerChar(s[i])]

\* str.replace(c, "")
RemoveChar(s, c) == SelectSeq(s, LAMBDA x : x # c)

\* sub in s
Contains(s, sub) ==
    \E i \in 0..(Len(s) - Len(sub)) : SubSeq(s, i + 1, i + Len(sub)) = sub

\* str(n) for an int n
RECURSIVE NatStr(_)
NatStr(n) == IF n < 10 THEN <<Digits[n + 1]>> ELSE NatStr(n \div 10) \o <<Digits[(n % 10) + 1]>>
IntStr(n) == IF n < 0 THEN <<"-">> \o NatStr(0 - n) ELSE NatStr(n)

\* s.split(sep)[-1] for a one-character sep
LastAfter(s, sep) ==
    IF \E i \in 1..Len(s) : s[i] = sep
    THEN LET last == CHOOSE i \in 1..Len(s) :
                        s[i] = sep /\ \A j \in (i + 1)..Len(s) : s[j] # sep
         IN SubSeq(s, last + 1, Len(s))
    ELSE s

\* s.split(sep)[0]
FirstBefore(s, sep) ==
    IF Contains(s, sep)
    THEN LET first == CHOOSE i \in 0..(Len(s) - Len(sep)) :
                          /\ SubSeq(s, i + 1, i + Len(sep)) = sep
                          /\ \A j \in 0..(i - 1) : SubSeq(s, j + 1, j + Len(sep)) # sep
         IN SubSeq(s, 1, first)
    ELSE s

\* dict objects: functions from key to value; only the key the code itself
\* writes, "n_clusters", occurs
EmptyDict == [k \in {} |-> 0]
DictSet(d, key, value) ==
    [k \in (DOMAIN d) \cup {key} |-> IF k = key THEN value ELSE d[k]]
DictGet(d, key, default) == IF key \in DOMAIN d THEN d[key] ELSE default

----------------------------------------------------------------------------
(* Model objects *)

\* A Python object passed or built as the clustering model.
\*   clspath    : module path and name of its class, as str(model.__class__) shows it
\*   fname      : __name__, for a function
\*   n_clusters : the attribute n_clusters, when the object has one
\*   k          : the attribute k, when the object has one
\*   ret        : what fit_predict returns: "array" (one label per vector),
\*                "long" (an array with one label too many), "list" (not an ndarray)
\*   lab        : the labelling the model computes (see LabelCode)
StrValue(s) ==
    [isstr |-> TRUE, str |-> s, clspath |-> S_str, fname |-> << >>,
     n_clusters |-> NoAttr, k |-> NoAttr, ret |-> "na", lab |-> "na", methods |-> {}]

SklearnDefaultNClusters == 8

\* sklearn.cluster.KMeans(**config)
KMeans(config) ==
    [isstr |-> FALSE, str |-> << >>, clspath |-> S_KMeansPath, fname |-> << >>,
     n_clusters |-> Attr(Some(DictGet(config, "n_clusters", SklearnDefaultNClusters))),
     k |-> NoAttr, ret |-> "array", lab |-> "kmeans",
     methods |-> {"fit", "fit_predict", "labels_"}]

\* an object of a user's own class with a fit_predict method
CustomModel(ret, lab) ==
    [isstr |-> FALSE, str |-> << >>, clspath |-> S_MyModelPath, fname |-> << >>,
     n_clusters |-> NoAttr, k |-> NoAttr, ret |-> ret, lab |-> lab,
     methods |-> {"fit_predict"}]

\* an estimator of sklearn.cluster built as Class(**config): its class path,
\* the default of its n_clusters parameter when it has one, and whether the
\* class offers fit_predict (FeatureAgglomeration and the biclustering
\* estimators do not)
Estimator(clspath, default, has_fit_predict, config) ==
    [isstr |-> FALSE, str |-> << >>, clspath |-> clspath, fname |-> << >>,
     n_clusters |-> IF default = None THEN NoAttr
                    ELSE Attr(Some(DictGet(config, "n_clusters", default[1]))),
     k |-> NoAttr, ret |-> "array",
     lab |-> IF default = None THEN "noise" ELSE "kmeans",
     methods |-> IF has_fit_predict THEN {"fit", "fit_predict", "labels_"}
                 ELSE {"fit"}]

\* hdbscan.HDBSCAN(**config)
HDBSCAN(config) ==
    [isstr |-> FALSE, str |-> << >>, clspath |-> <<"h","d","b","s","c","a","n",".","h","d","b","s","c","a","n","_",".","H","D","B","S","C","A","N">>, fname |-> << >>,
     n_clusters |-> NoAttr, k |-> NoAttr, ret |-> "array", lab |-> "noise",
     methods |-> {"fit", "fit_predict", "labels_"}]

\* faiss.Kmeans(**config): d and k are required parameters, k is kept as an
\* attribute
FaissKmeans(config) ==
    [isstr |-> FALSE, str |-> << >>, clspath |-> <<"f","a","i","s","s",".","K","m","e","a","n","s">>, fname |-> << >>,
     n_clusters |-> NoAttr, k |-> Attr(Some(DictGet(config, "k", 0))), ret |-> "array",
     lab |-> "kmeans", methods |-> {"train", "assign"}]

\* the function sentence_transformers.util.community_detection
CommunityDetection ==
    [isstr |-> FALSE, str |-> << >>, clspath |-> S_function,
     fname |-> S_community_detection, n_clusters |-> NoAttr, k |-> NoAttr,
     ret |-> "list", lab |-> "same", methods |-> {"__call__"}]

\* the branches of _get_model that build an estimator of sklearn.cluster:
\* the name compared with, the class, its n_clusters default, fit_predict
SklearnBranches ==
    <<[name |-> <<"a","f","f","i","n","i","t","y","p","r","o","p","a","g","a","t","i","o","n">>,
       path |-> <<"s","k","l","e","a","r","n",".","c","l","u","s","t","e","r",".","_","a","f","f","i","n","i","t","y","_","p","r","o","p","a","g","a","t","i","o","n",".","A","f","f","i","n","i","t","y","P","r","o","p","a","g","a","t","i","o","n">>,
       default |-> None, fp |-> TRUE],
      [name |-> <<"a","g","g","l","o","m","e","r","a","t","i","v","e","c","l","u","s","t","e","r","i","n","g">>,
       path |-> <<"s","k","l","e","a","r","n",".","c","l","u","s","t","e","r",".","_","a","g","g","l","o","m","e","r","a","t","i","v","e",".","A","g","g","l","o","m","e","r","a","t","i","v","e","C","l","u","s","t","e","r","i","n","g">>,
       default |-> Some(2), fp |-> TRUE],
      [name |-> <<"b","i","r","c","h">>,
       path |-> <<"s","k","l","e","a","r","n",".","c","l","u","s","t","e","r",".","_","b","i","r","c","h",".","B","i","r","c","h">>,
       default |-> Some(3), fp |-> TRUE],
      [name |-> <<"d","b","s","c","a","n">>,
       path |-> <<"s","k","l","e","a","r","n",".","c","l","u","s","t","e","r",".","_","d","b","s","c","a","n",".","D","B","S","C","A","N">>,
       default |-> None, fp |-> TRUE],
      [name |-> <<"o","p","t","i","c","s">>,
       path |-> <<"s","k","l","e","a","r","n",".","c","l","u","s","t","e","r",".","_","o","p","t","i","c","s",".","O","P","T","I","C","S">>,
       default |-> None, fp |-> TRUE],
      [name |-> S_kmeans, path |-> S_KMeansPath,
       default |-> Some(SklearnDefaultNClusters), fp |-> TRUE],
      [name |-> <<"f","e","a","t","u","r","e","a","g","g","l","o","m","e","r","a","t","i","o","n">>,
       path |-> <<"s","k","l","e","a","r","n",".","c","l","u","s","t","e","r",".","_","a","g","g","l","o","m","e","r","a","t","i","v","e",".","F","e","a","t","u","r","e","A","g","g","l","o","m","e","r","a","t","i","o","n">>,
       default |-> Some(2), fp |-> FALSE],
      [name |-> <<"m","e","a","n","s","h","i","f","t">>,
       path |-> <<"s","k","l","e","a","r","n",".","c","l","u","s","t","e","r",".","_","m","e","a","n","_","s","h","i","f","t",".","M","e","a","n","S","h","i","f","t">>,
       default |-> None, fp |-> TRUE],
      [name |-> <<"m","i","n","i","b","a","t","c","h","k","m","e","a","n","s">>,
       path |-> <<"s","k","l","e","a","r","n",".","c","l","u","s","t","e","r",".","_","k","m","e","a","n","s",".","M","i","n","i","B","a","t","c","h","K","M","e","a","n","s">>,
       default |-> Some(SklearnDefaultNClusters), fp |-> TRUE],
      [name |-> <<"s","p","e","c","t","r","a","l","c","l","u","s","t","e","r","i","n","g">>,
       path |-> <<"s","k","l","e","a","r","n",".","c","l","u","s","t","e","r",".","_","s","p","e","c","t","r","a","l",".","S","p","e","c","t","r","a","l","C","l","u","s","t","e","r","i","n","g">>,
       default |-> Some(SklearnDefaultNClusters), fp |-> TRUE],
      [name |-> <<"s","p","e","c","t","r","a","l","b","i","c","l","u","s","t","e","r","i","n","g">>,
       path |-> <<"s","k","l","e","a","r","n",".","c","l","u","s","t","e","r",".","_","b","i","c","l","u","s","t","e","r",".","S","p","e","c","t","r","a","l","B","i","c","l","u","s","t","e","r","i","n","g">>,
       default |-> Some(3), fp |-> FALSE],
      [name |-> <<"s","p","e","c","t","r","a","l","c","o","c","l","u","s","t","e","r","i","n","g">>,
       path |-> <<"s","k","l","e","a","r","n",".","c","l","u","s","t","e","r",".","_","b","i","c","l","u","s","t","e","r",".","S","p","e","c","t","r","a","l","C","o","c","l","u","s","t","e","r","i","n","g">>,
       default |-> Some(3), fp |-> FALSE]>>

\* str(model.__class__)
ClassStr(model) == S_class_open \o model.clspath \o S_class_close

----------------------------------------------------------------------------
(* ClusterOps construction *)

\* _get_model: the model name, the package when it is set here, the model
NormalizeName(s) == RemoveChar(RemoveChar(Lower(s), " "), "_")

GetModel(model, config) ==
    IF model.isstr
    THEN LET name == NormalizeName(model.str)
         IN [model_name |-> name,
             package |-> None,
             model |->
                 IF name = S_kmeans THEN KMeans(config)
                 ELSE IF \E b \in 1..Len(SklearnBranches) : SklearnBranches[b].name = name
                 THEN LET b == SklearnBranches[CHOOSE b \in 1..Len(SklearnBranches) :
                                                  SklearnBranches[b].name = name]
                      IN Estimator(b.path, b.default, b.fp, config)
                 ELSE IF name = S_hdbscan THEN HDBSCAN(config)
                 ELSE IF name = S_community_detection THEN CommunityDetection
                 ELSE IF Contains(name, S_faiss) THEN FaissKmeans(config)
                 ELSE StrValue(name)]
    ELSE [model_name |-> FirstBefore(LastAfter(ClassStr(model), "."), S_class_close),
          package |-> Some("custom"),
          model |-> model]

\* _get_package
GetPackage(model) ==
    LET model_name == IF Contains(ClassStr(model), S_function) THEN model.fname
                      ELSE ClassStr(model)
    IN IF Contains(model_name, S_sklearn) THEN "sklearn"
       ELSE IF Contains(model_name, S_faiss) THEN "faiss"
       ELSE IF Contains(model_name, S_hdbscan) THEN "hdbscan"
       ELSE IF Contains(model_name, S_community_detection) THEN "sentence-transformers"
       ELSE "custom"

\* str(x) of an Optional[int] inside an f-string
OptIntStr(o) == IF o = None THEN <<"N","o","n","e">> ELSE IntStr(o[1])

\* _get_alias, with self.model, self.model_name and self.n_clusters as set before it
GetAlias(alias, model, model_name, n_clusters) ==
    LET generated ==
            IF HasAttr(model.n_clusters)
            THEN model_name \o <<"-">>
                 \o OptIntStr(IF n_clusters # None THEN n_clusters ELSE model.n_clusters[1])
            ELSE IF HasAttr(model.k)
            THEN model_name \o <<"-">>
                 \o OptIntStr(IF n_clusters # None THEN n_clusters ELSE model.k[1])
            ELSE model_name
    IN Lower(IF alias = None THEN generated ELSE alias[1])

BlankInst ==
    [vector_field |-> None, vector_fields |-> None, config |-> 0,
     model_name |-> << >>, model |-> StrValue(<< >>), package |-> "",
     n_clusters |-> None, alias |-> << >>, outlier_value |-> 0,
     outlier_label |-> << >>, dataset_id |-> None]

\* The reference of the caller's cluster_config mapping; instance i's own
\* fresh dict (cluster_config is None) gets reference i.
CallerCfg == 0
DictRefs == {CallerCfg} \cup Insts

\* ClusterOps.__init__
NewClusterOps(i, model, vector_fields, alias, dataset_id, n_clusters, cluster_config, outlier_value, outlier_label, heap) ==
    LET ref == IF cluster_config = None THEN i ELSE cluster_config[1]
        d0 == IF cluster_config = None THEN EmptyDict ELSE heap[ref]
        d1 == IF n_clusters # None THEN DictSet(d0, "n_clusters", n_clusters[1]) ELSE d0
        gm == GetModel(model, d1)
        package == IF gm.package # None THEN gm.package[1] ELSE GetPackage(gm.model)
        ncl == IF HasAttr(gm.model.n_clusters) THEN gm.model.n_clusters[1] ELSE n_clusters
    IN [heap |-> [heap EXCEPT ![ref] = d1],
        self |-> [vector_field |-> IF vector_fields = None THEN None
                                   ELSE Some(vector_fields[1][1]),
                  vector_fields |-> vector_fields,
                  config |-> ref,
                  model_name |-> gm.model_name,
                  model |-> gm.model,
                  package |-> package,
                  n_clusters |-> ncl,
                  alias |-> GetAlias(alias, gm.model, gm.model_name, ncl),
                  outlier_value |-> outlier_value,
                  outlier_label |-> outlier_label,
                  dataset_id |-> dataset_id]]

----------------------------------------------------------------------------
(* Documents and vectors *)

VecA == <<0, 0>>
VecB == <<2, 2>>

IdPath == <<"_id">>
FieldPath(vector_field) == <<vector_field>>
\* f"_cluster_.{vector_field}.{self.alias}"
ClusterField(vector_field, alias) == <<"_cluster_", vector_field, alias>>

DocIds == <<"doc1", "doc2", "doc3", "doc4">>

\* a stored document: its _id, and a vector in "v1" unless hasVector is FALSE
MakeDoc(id, hasVector, vector) ==
    [p \in {IdPath} \cup (IF hasVector THEN {FieldPath("v1")} ELSE {}) |->
        IF p = IdPath THEN id ELSE vector]

\* DocUtils.is_field / get_field / set_field
IsField(field, doc) == field \in DOMAIN doc
GetField(field, doc) == doc[field]
SetField(field, doc, value) ==
    [p \in (DOMAIN doc) \cup {field} |-> IF p = field THEN value ELSE doc[p]]

\* DocUtils.set_field_across_documents(field, values, docs): the values go to
\* the documents position by position. Whether a length mismatch is asserted
\* depends on the doc_utils release (asserts).
SetFieldAcrossDocuments(field, values, docs, asserts) ==
    IF asserts /\ Len(values) # Len(docs)
    THEN [err |-> Some("AssertionError"), docs |-> docs]
    ELSE IF Len(values) > Len(docs)
    THEN [err |-> Some("IndexError"), docs |-> docs]
    ELSE [err |-> None,
          docs |-> [i \in 1..Len(docs) |->
                       IF i <= Len(values)
                       THEN SetField(field, docs[i], values[i])
                       ELSE docs[i]]]

----------------------------------------------------------------------------
(* Labels and centroids *)

\* a faulty _format_labels: the sentinel is -1 whatever the instance is configured with
FormatLabels_FixedSentinel(labels, outlier_value, outlier_label) ==
    [i \in 1..Len(labels) |->
        IF labels[i] # -1
        THEN S_cluster_ \o IntStr(labels[i])
        ELSE outlier_label]

\* _format_labels
FormatLabels(labels, outlier_value, outlier_label) ==
    [i \in 1..Len(labels) |->
        IF labels[i] # outlier_value
        THEN S_cluster_ \o IntStr(labels[i])
        ELSE outlier_label]

\* Floating-point numbers, scaled down: a float holds FloatBits significant
\* binary digits (float64 holds 53). Fl(x) is the float nearest to the integer
\* x, ties going to the even significand; every sum of two floats is rounded
\* this way.
RECURSIVE UnitOf(_, _)
UnitOf(a, unit) == IF a < unit * (2 ^ FloatBits) THEN unit ELSE UnitOf(a, 2 * unit)

Fl(x) ==
    LET a == IF x < 0 THEN 0 - x ELSE x
        unit == UnitOf(a, 1)
        q == a \div unit
        r == a % unit
        up == 2 * r > unit \/ (2 * r = unit /\ q % 2 = 1)
        rounded == IF up THEN (q + 1) * unit ELSE q * unit
    IN IF x < 0 THEN 0 - rounded ELSE rounded

\* rationals n/d in lowest terms, d > 0: the quotient of a float sum by a count
RECURSIVE GCD(_, _)
GCD(a, b) == IF b = 0 THEN a ELSE GCD(b, a % b)
Abs(n) == IF n < 0 THEN 0 - n ELSE n
Rat(n, d) ==
    LET g == GCD(Abs(n), d)
    IN <<n \div g, d \div g>>

\* the sum numpy accumulates over the rows at the positions idx, row after
\* row in their order, for component c
RECURSIVE SumAt(_, _, _)
SumAt(vectors, idx, c) ==
    IF idx = {} THEN 0
    ELSE LET i == CHOOSE x \in idx : \A y \in idx : y <= x
         IN Fl(SumAt(vectors, idx \ {i}, c) + vectors[i][c])

\* np.array(vectors).mean(0).tolist() over the vectors at the positions idx
MeanVector_FirstRow(vectors, idx) ==
    LET first == CHOOSE x \in idx : \A y \in idx : x <= y
    IN [c \in 1..Len(vectors[first]) |-> Rat(vectors[first][c], 1)]

MeanVector(vectors, idx) ==
    LET any == CHOOSE x \in idx : TRUE
    IN [c \in 1..Len(vectors[any]) |-> Rat(SumAt(vectors, idx, c), Cardinality(idx))]

RECURSIVE SortedSeq(_)
SortedSeq(S) ==
    IF S = {} THEN << >>
    ELSE LET m == CHOOSE x \in S : \A y \in S : x <= y
         IN <<m>> \o SortedSeq(S \ {m})

GetCentroidDocuments_OneGroup(vectors, labels) ==
    LET n == IF Len(labels) < Len(vectors) THEN Len(labels) ELSE Len(vectors)
    IN IF n = 0 THEN << >>
       ELSE <<[_id |-> labels[1], centroid_vector |-> MeanVector(vectors, 1..n)]>>

\* _get_centroid_documents: zip(labels, vectors) groups the vectors by label
\* in a dict (insertion order: first occurrence), then one record per key
GetCentroidDocuments(vectors, labels) ==
    LET n == IF Len(labels) < Len(vectors) THEN Len(labels) ELSE Len(vectors)
        firsts == SortedSeq({i \in 1..n : \A j \in 1..(i - 1) : labels[j] # labels[i]})
    IN [k \in 1..Len(firsts) |->
           [_id |-> labels[firsts[k]],
            centroid_vector |->
                MeanVector(vectors, {i \in 1..n : labels[i] = labels[firsts[k]]})]]

----------------------------------------------------------------------------
(* Third-party and custom models *)

\* the labelling a model computes for a vector
LabelCode(lab, vector) ==
    CASE lab = "same" -> 0
      [] lab = "split" -> IF vector = VecA THEN 0 ELSE 1
      [] lab = "noise" -> IF vector = VecA THEN -1 ELSE 0
      [] OTHER -> 0

\* sklearn KMeans.fit_predict: fewer samples than clusters is an error of the
\* library, and so is an empty input
KMeansFitPredict(model, vectors) ==
    LET k == model.n_clusters[1][1]
    IN IF Len(vectors) = 0 \/ Len(vectors) < k
       THEN [err |-> Some("LibraryError"), isarray |-> TRUE, labels |-> << >>]
       ELSE [err |-> None, isarray |-> TRUE,
             labels |-> [i \in 1..Len(vectors) |->
                            LabelCode(IF k = 1 THEN "same" ELSE "split", vectors[i])]]

\* model.fit_predict(vectors): an attribute error for an object without the
\* method (a str, a function, a faiss Kmeans, an estimator without it)
CustomFitPredict(model, vectors) ==
    LET labels == [i \in 1..Len(vectors) |-> LabelCode(model.lab, vectors[i])]
    IN IF "fit_predict" \notin model.methods
       THEN [err |-> Some("AttributeError"), isarray |-> FALSE, labels |-> << >>]
       ELSE IF HasAttr(model.n_clusters) THEN KMeansFitPredict(model, vectors)
       ELSE [err |-> None,
             isarray |-> model.ret # "list",
             labels |-> IF model.ret = "long" THEN labels \o <<0>> ELSE labels]

\* model.fit(vectors), then model.labels_.reshape(-1, 1)
FitThenLabels(model, vectors) ==
    IF ~({"fit", "labels_"} \subseteq model.methods)
    THEN [err |-> Some("AttributeError"), isarray |-> FALSE, labels |-> << >>]
    ELSE [err |-> None, isarray |-> TRUE,
          labels |-> [i \in 1..Len(vectors) |-> LabelCode(model.lab, vectors[i])]]

\* model.train(vectors), then model.assign(vectors)[1]: faiss needs at least
\* k training points
TrainThenAssign(model, vectors) ==
    IF ~({"train", "assign"} \subseteq model.methods)
    THEN [err |-> Some("AttributeError"), isarray |-> FALSE, labels |-> << >>]
    ELSE IF Len(vectors) = 0 \/ Len(vectors) < model.k[1][1]
    THEN [err |-> Some("LibraryError"), isarray |-> TRUE, labels |-> << >>]
    ELSE [err |-> None, isarray |-> TRUE,
          labels |-> [i \in 1..Len(vectors) |->
                         LabelCode(IF model.k[1][1] = 1 THEN "same" ELSE "split",
                                   vectors[i])]]

\* np.array(model(vectors)): community_detection returns the communities,
\* each the list of the positions of its rows; here all rows in one community
CallThenArray(model, vectors) ==
    IF "__call__" \notin model.methods
    THEN [err |-> Some("TypeError"), isarray |-> FALSE, labels |-> << >>]
    ELSE [err |-> None, isarray |-> TRUE,
          labels |-> [i \in 1..Len(vectors) |-> i - 1]]

----------------------------------------------------------------------------
(* ClusterOps._fit_predict *)

\* a faulty dispatch: the custom branch does not compare the shapes
FitPredictLabels_NoShapeCheck(self, vectors) ==
    IF self.package = "sklearn" THEN CustomFitPredict(self.model, vectors)
    ELSE IF self.package = "hdbscan" THEN FitThenLabels(self.model, vectors)
    ELSE IF self.package = "faiss" THEN TrainThenAssign(self.model, vectors)
    ELSE IF self.package = "sentencetransformers" THEN CallThenArray(self.model, vectors)
    ELSE IF self.package = "custom"
    THEN LET r == CustomFitPredict(self.model, vectors)
         IN IF r.err # None THEN r
            ELSE IF ~r.isarray
            THEN [r EXCEPT !.err =
                    Some("ValueError: Custom model must output np.ndarray for labels")]
            ELSE r
    ELSE [err |-> Some("UnboundLocalError"), isarray |-> FALSE, labels |-> << >>]

FitPredictLabels(self, vectors) ==
    IF self.package = "sklearn" THEN CustomFitPredict(self.model, vectors)
    ELSE IF self.package = "hdbscan" THEN FitThenLabels(self.model, vectors)
    ELSE IF self.package = "faiss" THEN TrainThenAssign(self.model, vectors)
    ELSE IF self.package = "sentencetransformers" THEN CallThenArray(self.model, vectors)
    ELSE IF self.package = "custom"
    THEN LET r == CustomFitPredict(self.model, vectors)
         IN IF r.err # None THEN r
            ELSE IF ~r.isarray
            THEN [r EXCEPT !.err =
                    Some("ValueError: Custom model must output np.ndarray for labels")]
            ELSE IF Len(r.labels) # Len(vectors)
            THEN [r EXCEPT !.err = Some("ValueError: incorrect shape")]
            ELSE r
    ELSE \* no branch assigns labels
         [err |-> Some("UnboundLocalError"), isarray |-> FALSE, labels |-> << >>]

\* the positions of the documents that contain the vector field
WithField(documents, vector_field) ==
    SortedSeq({i \in 1..Len(documents) : IsField(FieldPath(vector_field), documents[i])})

FitPredict(self, documents, vector_field, asserts) ==
    LET have == WithField(documents, vector_field)
        vectors == [k \in 1..Len(have) |-> GetField(FieldPath(vector_field), documents[have[k]])]
        raw == FitPredictLabels(self, vectors)
        labels == FormatLabels(raw.labels, self.outlier_value, self.outlier_label)
        set == SetFieldAcrossDocuments(ClusterField(vector_field, self.alias),
                                       labels, documents, asserts)
    IN IF raw.err # None
       THEN [err |-> raw.err, centroid_documents |-> << >>, documents |-> documents]
       ELSE IF set.err # None
       THEN [err |-> set.err, centroid_documents |-> << >>, documents |-> documents]
       ELSE [err |-> None,
             centroid_documents |-> GetCentroidDocuments(vectors, labels),
             documents |-> set.docs]

----------------------------------------------------------------------------
(* The remote store, as the orchestrator's collaborator contract describes it *)

\* fetch_documents: the documents of the dataset, each cut down to its _id and
\* the selected fields it has (all fields when none is selected)
GetAllDocuments(store, dataset_id, select_fields) ==
    LET docs == store[dataset_id]
        keep(doc) == IF select_fields = None THEN DOMAIN doc
                     ELSE {p \in DOMAIN doc :
                             \/ p = IdPath
                             \/ \E k \in 1..Len(select_fields[1]) :
                                   p = FieldPath(select_fields[1][k])}
    IN [i \in 1..Len(docs) |-> [p \in keep(docs[i]) |-> docs[i][p]]]

\* update_documents: every posted document is merged, field by field, into the
\* stored document with the same _id
UpdateDocuments(store, dataset_id, documents) ==
    LET merged(doc) ==
            IF \E k \in 1..Len(documents) : documents[k][IdPath] = doc[IdPath]
            THEN LET new == documents[CHOOSE k \in 1..Len(documents) :
                                         documents[k][IdPath] = doc[IdPath]]
                 IN [p \in (DOMAIN doc) \cup (DOMAIN new) |->
                        IF p \in DOMAIN new THEN new[p] ELSE doc[p]]
            ELSE doc
    IN [store EXCEPT ![dataset_id] =
           [i \in 1..Len(store[dataset_id]) |-> merged(store[dataset_id][i])]]

\* upsert_centroids: a record replaces the stored record with the same _id in
\* the same (dataset, vector field, alias) namespace; other records stay
InsertCentroids(cstore, dataset_id, vector_fields, alias, cluster_centers) ==
    LET new == {[dataset_id |-> dataset_id, vector_field |-> vector_fields[1],
                 alias |-> alias, _id |-> cluster_centers[k]._id,
                 centroid_vector |-> cluster_centers[k].centroid_vector] :
                   k \in 1..Len(cluster_centers)}
        replaced(r) == \E n \in new :
                          /\ n.dataset_id = r.dataset_id
                          /\ n.vector_field = r.vector_field
                          /\ n.alias = r.alias
                          /\ n._id = r._id
    IN {r \in cstore : ~replaced(r)} \cup new

\* whether the store holds a dataset of this name; None names no dataset
DatasetExists(store, dataset_id) ==
    dataset_id # None /\ dataset_id[1] \in DOMAIN store

\* the centroid records stored for a namespace
StoredCentroids(cstore, dataset_id, vector_field, alias) ==
    {r \in cstore : /\ r.dataset_id = dataset_id
                    /\ r.vector_field = vector_field
                    /\ r.alias = alias}

----------------------------------------------------------------------------
(* Transport.make_http_request *)

\* what one attempt can meet: status 200 with a decodable body, status 200 with
\* a body that is no JSON, another status, a ConnectionError, or an exception
\* of the requests library that no except clause names
Responses == {"200", "200 no json", "non-200", "ConnectionError", "RequestException"}

\* the request took effect at the server
Applied(resp) == resp \in {"200", "200 no json"}

\* a faulty retry loop: the status code is not looked at
HttpAttempt_IgnoreStatus(attempt, resp) ==
    IF resp = "RequestException" THEN "raise" ELSE "return"

\* one pass of the retry loop, attempts 0 .. number_of_retries - 1:
\* "return" the result, "retry", "none" (the loop ends, None is returned) or "raise"
HttpAttempt(attempt, resp) ==
    IF resp = "200" THEN "return"
    ELSE IF resp = "RequestException" THEN "raise"
    ELSE IF attempt + 1 < NumRetries THEN "retry"
    ELSE "none"

----------------------------------------------------------------------------
(* What the caller of an instance did and saw *)

\* a method call other than operate: its arguments as passed, the notices it
\* printed, the remote request it sent (None: none), its result and its error
BlankCall ==
    [op |-> "", dataset_id |-> None, vector_field |-> None, vector_fields |-> None,
     alias |-> None, kwargs |-> EmptyDict, labels |-> << >>, vectors |-> << >>,
     printed |-> {}, returned |-> TRUE,
     request |-> None, result |-> << >>, err |-> ""]

BlankCaller ==
    [ctor |-> None,
     last_used |-> [dataset_id |-> None, vector_field |-> None],
     call |-> BlankCall]

\* the dataset and the vector field the caller used last, after a call of
\* operate with these arguments: an argument given replaces the earlier value
LastUsed(last_used, dataset_id, vector_fields) ==
    [dataset_id |-> IF dataset_id # None THEN dataset_id ELSE last_used.dataset_id,
     vector_field |-> IF vector_fields # None THEN Some(vector_fields[1][1])
                      ELSE last_used.vector_field]

----------------------------------------------------------------------------
(* ClusterOps.operate *)

BlankLoc ==
    [dataset_id |-> None, vector_fields |-> None, vector_field |-> None,
     documents |-> << >>, centroid_documents |-> << >>, attempt |-> 0,
     update_result |-> "", insert_result |-> "", err |-> "", failed_step |-> ""]

\* the remote calls operate makes
FetchRequest(dataset_id, vector_fields) ==
    [op |-> "fetch", dataset_id |-> dataset_id, vector_fields |-> vector_fields,
     alias |-> << >>, docs |-> << >>, cluster_centers |-> << >>, returned |-> FALSE]

UpdateRequest(dataset_id, documents) ==
    [op |-> "update", dataset_id |-> dataset_id, vector_fields |-> None,
     alias |-> << >>, docs |-> documents, cluster_centers |-> << >>, returned |-> FALSE]

\* a faulty _insert_centroids: the centroids go under the model's name
InsertRequest_WrongAlias(self, dataset_id, vector_field, centroid_documents) ==
    [op |-> "insert", dataset_id |-> dataset_id, vector_fields |-> Some(<<vector_field>>),
     alias |-> self.model_name, docs |-> << >>, cluster_centers |-> centroid_documents,
     returned |-> FALSE]

\* _insert_centroids
InsertRequest(self, dataset_id, vector_field, centroid_documents) ==
    [op |-> "insert", dataset_id |-> dataset_id, vector_fields |-> Some(<<vector_field>>),
     alias |-> self.alias, docs |-> << >>, cluster_centers |-> centroid_documents,
     returned |-> FALSE]

Returned(log) == [k \in 1..Len(log) |-> IF k = Len(log) THEN [log[k] EXCEPT !.returned = TRUE]
                                        ELSE log[k]]

Fail(i, step, err) ==
    /\ pc' = [pc EXCEPT ![i] = "error"]
    /\ loc' = [loc EXCEPT ![i].err = err, ![i].failed_step = step]

\* lastGood after a step of instance i: its own entry becomes mine, and the
\* others' entries are dropped when the step wrote centroids
NextLastGood(i, mine, wrote) ==
    [j \in Insts |-> IF j = i THEN mine ELSE IF wrote THEN None ELSE lastGood[j]]

\* lines 328-346: the arguments are resolved and the fetch is issued
OperateStart(i, dataset_id, vector_fields_arg) ==
    /\ pc[i] \in {"idle", "done", "error"}
    /\ LET vector_fields == IF vector_fields_arg = None THEN inst[i].vector_fields
                            ELSE vector_fields_arg
           vector_field == IF vector_fields # None THEN Some(vector_fields[1][1]) ELSE None
       IN /\ inst' = [inst EXCEPT ![i].dataset_id = dataset_id,
                                  ![i].vector_field =
                                      IF vector_fields # None THEN vector_field ELSE @]
          /\ loc' = [loc EXCEPT ![i] = [BlankLoc EXCEPT !.dataset_id = dataset_id,
                                                       !.vector_fields = vector_fields,
                                                       !.vector_field = vector_field]]
          /\ calls' = [calls EXCEPT ![i] = <<FetchRequest(dataset_id, vector_fields)>>]
    /\ caller' = [caller EXCEPT ![i].last_used = LastUsed(@, dataset_id, vector_fields_arg),
                                ![i].call = BlankCall]
    /\ pc' = [pc EXCEPT ![i] = "fetch"]
    /\ UNCHANGED <<dicts, remoteDocs, remoteCentroids, lastDocWriter, lastCentroidWriter,
                   lastGood, docUtilsAsserts,
                   mgr, http, ner>>

\* lines 341-346: one attempt of the fetch
Fetch(i, resp) ==
    /\ pc[i] = "fetch"
    /\ Applied(resp) => DatasetExists(remoteDocs, loc[i].dataset_id)
    /\ LET outcome == HttpAttempt(loc[i].attempt, resp)
       IN CASE outcome = "return" ->
                 /\ loc' = [loc EXCEPT ![i].documents =
                               GetAllDocuments(remoteDocs, loc[i].dataset_id[1],
                                               loc[i].vector_fields),
                                       ![i].attempt = 0]
                 /\ pc' = [pc EXCEPT ![i] = "fit"]
                 /\ calls' = [calls EXCEPT ![i] = Returned(@)]
                 /\ UNCHANGED lastGood
            [] outcome = "retry" ->
                 /\ loc' = [loc EXCEPT ![i].attempt = @ + 1]
                 /\ UNCHANGED <<pc, calls, lastGood>>
            [] outcome = "none" ->
                 \* documents is None: iterating it in _fit_predict is a TypeError
                 /\ Fail(i, "fit", "TypeError")
                 /\ calls' = [calls EXCEPT ![i] = Returned(@)]
                 /\ lastGood' = NextLastGood(i, None, FALSE)
            [] OTHER ->
                 /\ Fail(i, "fetch", "RequestException")
                 /\ lastGood' = NextLastGood(i, None, FALSE)
                 /\ UNCHANGED calls
    /\ UNCHANGED <<dicts, inst, remoteDocs, remoteCentroids, lastDocWriter,
                   lastCentroidWriter, docUtilsAsserts, caller,
                   mgr, http, ner>>

\* lines 348-359: _fit_predict, then the write-back is issued
Fit(i) ==
    /\ pc[i] = "fit"
    /\ IF loc[i].vector_field = None
       THEN \* vector_field was never assigned
            /\ Fail(i, "fit", "UnboundLocalError")
            /\ lastGood' = NextLastGood(i, None, FALSE)
            /\ UNCHANGED calls
       ELSE LET r == FitPredict(inst[i], loc[i].documents, loc[i].vector_field[1],
                                docUtilsAsserts)
            IN IF r.err # None
               THEN /\ Fail(i, "fit", r.err[1])
                    /\ lastGood' = NextLastGood(i, None, FALSE)
                    /\ UNCHANGED calls
               ELSE /\ loc' = [loc EXCEPT ![i].documents = r.documents,
                                          ![i].centroid_documents = r.centroid_documents]
                    /\ pc' = [pc EXCEPT ![i] = "update"]
                    /\ calls' = [calls EXCEPT ![i] =
                                   Append(@, UpdateRequest(loc[i].dataset_id, r.documents))]
                    /\ UNCHANGED lastGood
    /\ UNCHANGED <<dicts, inst, remoteDocs, remoteCentroids, lastDocWriter,
                   lastCentroidWriter, docUtilsAsserts, caller,
                   mgr, http, ner>>

\* lines 355-365: one attempt of the write-back; when it is over, whatever it
\* returned, the centroid insert is issued
Update(i, resp) ==
    /\ pc[i] = "update"
    /\ IF Applied(resp)
       THEN /\ remoteDocs' = UpdateDocuments(remoteDocs, loc[i].dataset_id[1], loc[i].documents)
            /\ lastDocWriter' = i
       ELSE UNCHANGED <<remoteDocs, lastDocWriter>>
    /\ LET outcome == HttpAttempt(loc[i].attempt, resp)
       IN CASE outcome \in {"return", "none"} ->
                 /\ loc' = [loc EXCEPT ![i].update_result = outcome, ![i].attempt = 0]
                 /\ pc' = [pc EXCEPT ![i] = "insert"]
                 /\ calls' = [calls EXCEPT ![i] =
                                Append(Returned(@),
                                       InsertRequest(inst[i], loc[i].dataset_id,
                                                     loc[i].vector_field[1],
                                                     loc[i].centroid_documents))]
                 /\ UNCHANGED lastGood
            [] outcome = "retry" ->
                 /\ loc' = [loc EXCEPT ![i].attempt = @ + 1]
                 /\ UNCHANGED <<pc, calls, lastGood>>
            [] OTHER ->
                 /\ Fail(i, "update", "RequestException")
                 /\ lastGood' = NextLastGood(i, None, FALSE)
                 /\ UNCHANGED calls
    /\ UNCHANGED <<dicts, inst, remoteCentroids, lastCentroidWriter, docUtilsAsserts,
                   caller,
                   mgr, http, ner>>

\* lines 361-368: one attempt of the centroid insert; when it is over, whatever
\* it returned, operate prints the link and returns
Insert(i, resp) ==
    /\ pc[i] = "insert"
    /\ LET req == calls[i][Len(calls[i])]
       IN IF Applied(resp)
          THEN /\ remoteCentroids' = InsertCentroids(remoteCentroids, req.dataset_id[1],
                                                     req.vector_fields[1], req.alias,
                                                     req.cluster_centers)
               /\ lastCentroidWriter' = i
          ELSE UNCHANGED <<remoteCentroids, lastCentroidWriter>>
    /\ LET outcome == HttpAttempt(loc[i].attempt, resp)
           req == calls[i][Len(calls[i])]
           count == Cardinality(StoredCentroids(remoteCentroids', req.dataset_id[1],
                                                req.vector_fields[1][1], req.alias))
           again == /\ lastGood[i] # None
                    /\ lastGood[i][1].dataset_id = req.dataset_id[1]
                    /\ lastGood[i][1].vector_field = req.vector_fields[1][1]
           good == [dataset_id |-> req.dataset_id[1],
                    vector_field |-> req.vector_fields[1][1],
                    count |-> count,
                    runs |-> IF again THEN 2 ELSE 1]
       IN CASE outcome \in {"return", "none"} ->
                 /\ loc' = [loc EXCEPT ![i].insert_result = outcome, ![i].attempt = 0]
                 /\ pc' = [pc EXCEPT ![i] = "done"]
                 /\ calls' = [calls EXCEPT ![i] = Returned(@)]
                 /\ lastGood' = NextLastGood(i,
                        IF outcome = "return" /\ loc[i].update_result = "return"
                        THEN Some(good) ELSE None,
                        Applied(resp))
            [] outcome = "retry" ->
                 /\ loc' = [loc EXCEPT ![i].attempt = @ + 1]
                 /\ lastGood' = NextLastGood(i, lastGood[i], Applied(resp))
                 /\ UNCHANGED <<pc, calls>>
            [] OTHER ->
                 /\ Fail(i, "insert", "RequestException")
                 /\ lastGood' = NextLastGood(i, None, FALSE)
                 /\ UNCHANGED calls
    /\ UNCHANGED <<dicts, inst, remoteDocs, lastDocWriter, docUtilsAsserts, caller,
                   mgr, http, ner>>

----------------------------------------------------------------------------
(* ClusterOps.closest, furthest, aggregate; _format_labels called on its own *)

\* str(x) of a dataset id or of None
StrOfDataset(dataset_id) == IF dataset_id = None THEN "None" ELSE dataset_id[1]

\* closest, lines 418-424: the request it sends
ClosestRequest(self, dataset_id, vector_field, alias, kwargs) ==
    [endpoint |-> "list_closest_to_center",
     dataset_id |-> IF dataset_id = None THEN self.dataset_id ELSE dataset_id,
     vector_fields |-> Some(<<IF vector_field = None THEN self.vector_field
                              ELSE vector_field>>),
     alias |-> IF alias = None THEN self.alias ELSE alias[1],
     params |-> kwargs]

\* furthest, lines 471-480
FurthestRequest(self, dataset_id, vector_field, alias, kwargs) ==
    [endpoint |-> "list_furthest_from_center",
     dataset_id |-> IF dataset_id = None THEN self.dataset_id ELSE dataset_id,
     vector_fields |-> Some(<<IF vector_field = None THEN self.vector_field
                              ELSE vector_field>>),
     alias |-> IF alias = None THEN self.alias ELSE alias[1],
     params |-> kwargs]

\* _retrieve_dataset_id for a dataset given by name or omitted: the name, the
\* notices printed and the error raised. hasattr(self, "dataset_id") asks
\* whether the instance has the attribute, whatever its value.
RetrieveDatasetId(self, dataset) ==
    IF dataset # None
    THEN [dataset_id |-> dataset, printed |-> {}, err |-> ""]
    ELSE IF "dataset_id" \in DOMAIN self
         THEN [dataset_id |-> Some(StrOfDataset(self.dataset_id)),
               printed |-> {"dataset"}, err |-> ""]
         ELSE [dataset_id |-> None, printed |-> {}, err |-> "Please supply dataset."]

\* aggregate, lines 622-639: the request sent for a resolved dataset
AggregateRequest(self, dataset_id, vector_fields, groupby) ==
    [endpoint |-> "aggregate",
     dataset_id |-> dataset_id,
     vector_fields |-> IF vector_fields = None \/ vector_fields[1] = << >>
                       THEN self.vector_fields ELSE vector_fields,
     alias |-> self.alias,
     params |-> [groupby |-> IF groupby = None THEN << >> ELSE groupby[1],
                 metrics |-> << >>, sort |-> << >>, filters |-> << >>,
                 page_size |-> 20, page |-> 1, asc |-> FALSE, flatten |-> TRUE]]

\* the instance is constructed and not inside operate
AtRest(i) == pc[i] \in {"idle", "done", "error"}

Closest(i, dataset_id, vector_field, alias, kwargs) ==
    /\ AtRest(i)
    /\ caller' = [caller EXCEPT ![i].call =
           [BlankCall EXCEPT !.op = "closest", !.dataset_id = dataset_id,
                             !.vector_field = vector_field, !.alias = alias,
                             !.kwargs = kwargs,
                             !.request = Some(ClosestRequest(inst[i], dataset_id,
                                                             vector_field, alias, kwargs))]]
    /\ UNCHANGED <<dicts, inst, pc, loc, calls, remoteDocs, remoteCentroids,
                   lastDocWriter, lastCentroidWriter, lastGood, docUtilsAsserts,
                   mgr, http, ner>>

Furthest(i, dataset_id, vector_field, alias, kwargs) ==
    /\ AtRest(i)
    /\ caller' = [caller EXCEPT ![i].call =
           [BlankCall EXCEPT !.op = "furthest", !.dataset_id = dataset_id,
                             !.vector_field = vector_field, !.alias = alias,
                             !.kwargs = kwargs,
                             !.request = Some(FurthestRequest(inst[i], dataset_id,
                                                              vector_field, alias, kwargs))]]
    /\ UNCHANGED <<dicts, inst, pc, loc, calls, remoteDocs, remoteCentroids,
                   lastDocWriter, lastCentroidWriter, lastGood, docUtilsAsserts,
                   mgr, http, ner>>

Aggregate(i, vector_fields, groupby, dataset) ==
    /\ AtRest(i)
    /\ LET r == RetrieveDatasetId(inst[i], dataset)
       IN caller' = [caller EXCEPT ![i].call =
              [BlankCall EXCEPT !.op = "aggregate", !.dataset_id = dataset,
                                !.vector_fields = vector_fields,
                                !.printed = r.printed,
                                !.err = r.err,
                                !.request =
                                    IF r.err # "" THEN None
                                    ELSE Some(AggregateRequest(inst[i], r.dataset_id,
                                                               vector_fields, groupby))]]
    /\ UNCHANGED <<dicts, inst, pc, loc, calls, remoteDocs, remoteCentroids,
                   lastDocWriter, lastCentroidWriter, lastGood, docUtilsAsserts,
                   mgr, http, ner>>

\* _format_labels applied to an array of raw labels
\* _get_centroid_documents(vectors, labels) runs and returns; it reads
\* nothing of the instance
CentroidDocumentsCall(i) ==
    LET call == caller[i].call
    IN /\ call.op = "_get_centroid_documents"
       /\ ~call.returned
       /\ caller' = [caller EXCEPT ![i].call =
              [call EXCEPT !.result = GetCentroidDocuments(call.vectors, call.labels),
                           !.returned = TRUE]]
       /\ UNCHANGED <<dicts, inst, pc, loc, calls, remoteDocs, remoteCentroids,
                      lastDocWriter, lastCentroidWriter, lastGood, docUtilsAsserts,
                   mgr, http, ner>>

FormatLabelsCall(i, labels) ==
    /\ AtRest(i)
    /\ caller' = [caller EXCEPT ![i].call =
           [BlankCall EXCEPT !.op = "_format_labels", !.labels = labels,
                             !.result = FormatLabels(labels, inst[i].outlier_value,
                                                     inst[i].outlier_label)]]
    /\ UNCHANGED <<dicts, inst, pc, loc, calls, remoteDocs, remoteCentroids,
                   lastDocWriter, lastCentroidWriter, lastGood, docUtilsAsserts,
                   mgr, http, ner>>

----------------------------------------------------------------------------
(* OperationManager *)

ClusterOperations == {"ClusterOps", "SubClusterOps"}

\* OperationManager.__init__: post_hooks None becomes the empty list
NewOperationManager(dataset, operation, metadata, post_hooks) ==
    [dataset |-> dataset, operation |-> operation, metadata |-> metadata,
     post_hooks |-> IF post_hooks = None THEN << >> ELSE post_hooks[1]]

\* faulty exits: the metadata stored first; nothing done when the body raised
ExitPlan_StoreFirst(self, exc_info) ==
    <<[call |-> "store_operation_metadata", dataset |-> self.dataset,
       values |-> self.metadata]>>
    \o (IF self.operation \in ClusterOperations
        THEN <<[call |-> "get_centroid_documents"], [call |-> "insert_centroids"]>>
        ELSE << >>)
    \o [k \in 1..Len(self.post_hooks) |-> [call |-> "hook", hook |-> self.post_hooks[k]]]

\* __exit__(self, *args, **kwargs): the calls it makes, in order; args, the
\* exception information, is not read
ExitPlan(self, exc_info) ==
    (IF self.operation \in ClusterOperations
     THEN <<[call |-> "get_centroid_documents"], [call |-> "insert_centroids"]>>
     ELSE << >>)
    \o [k \in 1..Len(self.post_hooks) |-> [call |-> "hook", hook |-> self.post_hooks[k]]]
    \o <<[call |-> "store_operation_metadata", dataset |-> self.dataset,
          values |-> self.metadata]>>

\* a faulty exit that swallows the body's exception
ExitValue_Suppress(self, exc_info) == exc_info # None

\* what __exit__ returns, read as a truth value: it has no return statement
ExitValue(self, exc_info) == FALSE

\* the with statement: the body's exception is raised again after __exit__
\* unless __exit__ returned a true value
WithPropagates(exc_info, exit_value) == exc_info # None /\ ~exit_value

\* a faulty clean that also keeps the entries whose value changed
Clean_KeepChanged(before_docs, after_docs) ==
    LET n == IF Len(before_docs) < Len(after_docs) THEN Len(before_docs)
             ELSE Len(after_docs)
    IN [p \in 1..n |->
           [key \in {k \in DOMAIN after_docs[p] :
                        \/ k \notin DOMAIN before_docs[p]
                        \/ k = "_id"
                        \/ after_docs[p][k] # before_docs[p][k]} |-> after_docs[p][key]]]

\* OperationManager.clean: zip pairs the documents up to the shorter list
Clean(before_docs, after_docs) ==
    LET n == IF Len(before_docs) < Len(after_docs) THEN Len(before_docs)
             ELSE Len(after_docs)
    IN [p \in 1..n |->
           [key \in {k \in DOMAIN after_docs[p] :
                        k \notin DOMAIN before_docs[p] \/ k = "_id"} |-> after_docs[p][key]]]

\* pc: "none" (no manager), "with", "body", "exit", "left"; body_exc: the
\* exception the body raised (None: none); log: the calls __exit__ made;
\* exit_exc: the call of __exit__ that raised (0: none); raised: what the
\* with statement raised to its caller
BlankMgr ==
    [self |-> NewOperationManager("", "", None, None), pc |-> "none",
     as_target |-> "", body_exc |-> None, log |-> << >>, exit_exc |-> 0,
     raised |-> "", clean |-> [before_docs |-> << >>, after_docs |-> << >>, result |-> << >>, state |-> "none"]]

\* with OperationManager(...) as target: __enter__ returns the dataset
Enter ==
    /\ mgr.pc = "with"
    /\ mgr' = [mgr EXCEPT !.pc = "body", !.as_target = mgr.self.dataset]
    /\ UNCHANGED <<dicts, inst, pc, loc, calls, remoteDocs, remoteCentroids,
                   lastDocWriter, lastCentroidWriter, lastGood, docUtilsAsserts, caller,
                   http, ner>>

\* the body of the with-block ends, with an exception or without
Body(exc) ==
    /\ mgr.pc = "body"
    /\ mgr' = [mgr EXCEPT !.pc = "exit", !.body_exc = exc]
    /\ UNCHANGED <<dicts, inst, pc, loc, calls, remoteDocs, remoteCentroids,
                   lastDocWriter, lastCentroidWriter, lastGood, docUtilsAsserts, caller,
                   http, ner>>

\* __exit__ runs: its calls are made in order until one of them raises
\* (failAt: the position of the call that raises, 0 when none does)
Exit(failAt) ==
    LET plan == ExitPlan(mgr.self, mgr.body_exc)
        value == ExitValue(mgr.self, mgr.body_exc)
    IN /\ mgr.pc = "exit"
       /\ failAt <= Len(plan)
       /\ mgr' = [mgr EXCEPT
              !.pc = "left",
              !.log = IF failAt = 0 THEN plan ELSE SubSeq(plan, 1, failAt),
              !.exit_exc = failAt,
              !.raised = IF failAt # 0 THEN "exit"
                         ELSE IF WithPropagates(mgr.body_exc, value) THEN "body"
                         ELSE ""]
       /\ UNCHANGED <<dicts, inst, pc, loc, calls, remoteDocs, remoteCentroids,
                      lastDocWriter, lastCentroidWriter, lastGood, docUtilsAsserts, caller,
                      http, ner>>

\* OperationManager.clean(before_docs, after_docs) runs and returns
CleanCall ==
    /\ mgr.clean.state = "called"
    /\ mgr' = [mgr EXCEPT !.clean.result = Clean(mgr.clean.before_docs,
                                                 mgr.clean.after_docs),
                          !.clean.state = "returned"]
    /\ UNCHANGED <<dicts, inst, pc, loc, calls, remoteDocs, remoteCentroids,
                   lastDocWriter, lastCentroidWriter, lastGood, docUtilsAsserts, caller,
                   http, ner>>

----------------------------------------------------------------------------
(* A call of Transport.make_http_request *)

\* requests: the HTTP requests sent; answers: what came of each of them;
\* outcome: "" (no call), "running", "return", "none" (None returned), "raise"
BlankHttp ==
    [endpoint |-> "", method |-> "", output_format |-> "", attempt |-> 0,
     requests |-> << >>, answers |-> << >>, outcome |-> ""]

\* one pass of the loop for a call with this method and output format: a
\* method other than POST and GET raises ValueError, which no except clause
\* names; response.json() is called for the "json" format only
MakeHttpAttempt(method, output_format, attempt, resp) ==
    IF method \notin {"POST", "GET"} THEN "raise"
    ELSE IF resp = "200 no json" /\ output_format # "json" THEN "return"
    ELSE HttpAttempt(attempt, resp)

\* one attempt of the call: for POST and GET a request is sent and answered
HttpTry(resp) ==
    /\ http.outcome = "running"
    /\ http.attempt < NumRetries
    /\ LET outcome == MakeHttpAttempt(http.method, http.output_format, http.attempt, resp)
       IN http' = [http EXCEPT
              !.requests = IF http.method \in {"POST", "GET"}
                           THEN Append(@, [method |-> http.method, url |-> http.endpoint])
                           ELSE @,
              !.answers = IF http.method \in {"POST", "GET"} THEN Append(@, resp) ELSE @,
              !.attempt = @ + 1,
              !.outcome = IF outcome = "retry" THEN "running" ELSE outcome]
    /\ UNCHANGED <<dicts, inst, pc, loc, calls, remoteDocs, remoteCentroids,
                   lastDocWriter, lastCentroidWriter, lastGood, docUtilsAsserts, caller,
                   mgr, ner>>

----------------------------------------------------------------------------
(* ExtractNER.extract_ner *)

S_B_ == <<"B","-">>
S_I_ == <<"I","-">>
S_hashes == <<"#","#">>

StartsWith(s, prefix) == Len(s) >= Len(prefix) /\ SubSeq(s, 1, Len(prefix)) = prefix

\* s.replace(sub, "")
RECURSIVE RemoveSub(_, _)
RemoveSub(s, sub) ==
    IF Len(s) < Len(sub) \/ Len(s) = 0 THEN s
    ELSE IF SubSeq(s, 1, Len(sub)) = sub
    THEN RemoveSub(SubSeq(s, Len(sub) + 1, Len(s)), sub)
    ELSE <<s[1]>> \o RemoveSub(Tail(s), sub)

\* the loop of extract_ner from token k on: word (None while unbound),
\* is_recorded and new_entities as they stand
RECURSIVE NerLoop(_, _, _, _, _)
NerLoop(entities, k, word, is_recorded, new_entities) ==
    IF k > Len(entities) THEN [err |-> "", entities |-> new_entities]
    ELSE LET entity == entities[k]
         IN IF StartsWith(entity.entity, S_B_)
            THEN IF is_recorded
                 THEN NerLoop(entities, k + 1, Some(entity.word), FALSE, new_entities)
                 ELSE NerLoop(entities, k + 1, word, FALSE,
                              Append(new_entities,
                                     [word |-> word[1],
                                      type |-> RemoveSub(entity.entity, S_I_)]))
            ELSE IF StartsWith(entity.entity, S_I_)
            THEN IF word = None
                 THEN [err |-> "UnboundLocalError", entities |-> new_entities]
                 ELSE LET joined == IF Contains(entity.word, S_hashes)
                                    THEN word[1] \o RemoveSub(entity.word, S_hashes)
                                    ELSE word[1] \o <<" ">> \o entity.word
                      IN NerLoop(entities, k + 1, Some(joined), TRUE,
                                 Append(new_entities,
                                        [word |-> joined,
                                         type |-> RemoveSub(entity.entity, S_I_)]))
            ELSE NerLoop(entities, k + 1, word, is_recorded, new_entities)

\* extract_ner, given what the classifier returned for the text
ExtractNer(entities) == NerLoop(entities, 1, None, TRUE, << >>)

BlankNer == [entities |-> << >>, state |-> "none", err |-> "", new_entities |-> << >>]

ExtractNerCall ==
    /\ ner.state = "called"
    /\ LET r == ExtractNer(ner.entities)
       IN ner' = [ner EXCEPT !.state = IF r.err = "" THEN "returned" ELSE "raised",
                             !.err = r.err, !.new_entities = r.entities]
    /\ UNCHANGED <<dicts, inst, pc, loc, calls, remoteDocs, remoteCentroids,
                   lastDocWriter, lastCentroidWriter, lastGood, docUtilsAsserts, caller,
                   mgr, http>>

----------------------------------------------------------------------------
(* Construction and the callers' inputs *)

\* ClusterOps(model=..., vector_fields=..., alias=..., dataset_id=...,
\*            n_clusters=..., cluster_config=...), outlier_value and
\* outlier_label left at their defaults
DefaultOutlierValue == -1

ConstructWith(i, a, outlier_value, outlier_label) ==
    /\ pc[i] = "unconstructed"
    /\ LET r == NewClusterOps(i, a.model, a.vector_fields, a.alias, a.dataset_id,
                              a.n_clusters, a.cluster_config,
                              outlier_value, outlier_label, dicts)
       IN /\ dicts' = r.heap
          /\ inst' = [inst EXCEPT ![i] = r.self]
    /\ pc' = [pc EXCEPT ![i] = "idle"]
    /\ caller' = [caller EXCEPT ![i] =
                     [ctor |-> Some(a),
                      last_used |-> [dataset_id |-> a.dataset_id,
                                     vector_field |-> IF a.vector_fields = None THEN None
                                                      ELSE Some(a.vector_fields[1][1])],
                      call |-> BlankCall]]
    /\ UNCHANGED <<loc, calls, remoteDocs, remoteCentroids, lastDocWriter,
                   lastCentroidWriter, lastGood, docUtilsAsserts,
                   mgr, http, ner>>

CtorArgs(model, vector_fields, alias, dataset_id, n_clusters, cluster_config) ==
    [model |-> model, vector_fields |-> vector_fields, alias |-> alias,
     dataset_id |-> dataset_id, n_clusters |-> n_clusters,
     cluster_config |-> cluster_config]

Construct(i, a) == ConstructWith(i, a, DefaultOutlierValue, S_outlier)

\* the constructor calls of the clustering runs
RunCtorCalls ==
    {CtorArgs(StrValue(S_kmeans), Some(<<"v1">>), Some(S_a1), None, Some(2), None),
     CtorArgs(CustomModel("array", "noise"), Some(<<"v1">>), Some(S_a1), None, None, None),
     CtorArgs(CustomModel("long", "same"), None, None, None, None, None)}

\* the constructor calls of the construction runs
AllCtorCalls ==
    {CtorArgs(m, Some(<<"v1">>), al, None, n, cfg) :
        m \in {StrValue(S_kmeans), StrValue(S_K_Means), StrValue(S_not_a_real_model),
               CustomModel("array", "split")},
        al \in {None, Some(S_A2)},
        n \in {None, Some(1), Some(2)},
        cfg \in {None, Some(CallerCfg)}}

\* what the caller's cluster_config mapping holds before any construction
CallerConfigs == {EmptyDict, DictSet(EmptyDict, "n_clusters", 3)}

\* the datasets' documents: up to MaxDocs documents, each with a vector in "v1"
\* or without the field
DocVector(n) == IF n % 2 = 1 THEN VecA ELSE VecB

RECURSIVE DocLists(_)
DocLists(n) ==
    IF n = 0 THEN {<< >>}
    ELSE LET shorter == DocLists(n - 1)
         IN shorter \cup
            {Append(l, d) : l \in {x \in shorter : Len(x) = n - 1},
                            d \in {MakeDoc(DocIds[n], FALSE, DocVector(n)),
                                   MakeDoc(DocIds[n], TRUE, DocVector(n))}}

RunDatasets == {"ds1"}

Init ==
    /\ dicts \in [DictRefs -> {EmptyDict}]
    /\ inst = [i \in Insts |-> BlankInst]
    /\ pc = [i \in Insts |-> "unconstructed"]
    /\ loc = [i \in Insts |-> BlankLoc]
    /\ calls = [i \in Insts |-> << >>]
    /\ \E l \in DocLists(MaxDocs) :
          remoteDocs = [d \in Datasets |-> IF d = "ds1" THEN l ELSE << >>]
    /\ remoteCentroids = {}
    /\ lastDocWriter = 0
    /\ lastCentroidWriter = 0
    /\ lastGood = [i \in Insts |-> None]
    /\ docUtilsAsserts \in BOOLEAN
    /\ caller = [i \in Insts |-> BlankCaller]
    /\ mgr = BlankMgr
    /\ http = BlankHttp
    /\ ner = BlankNer

Next ==
    \/ \E i \in Insts, a \in RunCtorCalls : Construct(i, a)
    \/ \E i \in Insts, d \in RunDatasets, vf \in {None, Some(<<"v1">>)} :
          OperateStart(i, Some(d), vf)
    \/ \E i \in Insts, resp \in Responses : Fetch(i, resp)
    \/ \E i \in Insts : Fit(i)
    \/ \E i \in Insts, resp \in Responses : Update(i, resp)
    \/ \E i \in Insts, resp \in Responses : Insert(i, resp)

Spec == Init /\ [][Next]_vars

\* construction alone: two instances built from the callers' arguments
InitCtor ==
    /\ \E c \in CallerConfigs :
          dicts = [r \in DictRefs |-> IF r = CallerCfg THEN c ELSE EmptyDict]
    /\ inst = [i \in Insts |-> BlankInst]
    /\ pc = [i \in Insts |-> "unconstructed"]
    /\ loc = [i \in Insts |-> BlankLoc]
    /\ calls = [i \in Insts |-> << >>]
    /\ remoteDocs = [d \in Datasets |-> << >>]
    /\ remoteCentroids = {}
    /\ lastDocWriter = 0
    /\ lastCentroidWriter = 0
    /\ lastGood = [i \in Insts |-> None]
    /\ docUtilsAsserts = TRUE
    /\ caller = [i \in Insts |-> BlankCaller]
    /\ mgr = BlankMgr
    /\ http = BlankHttp
    /\ ner = BlankNer

NextCtor == \E i \in Insts, a \in AllCtorCalls : Construct(i, a)

SpecCtor == InitCtor /\ [][NextCtor]_vars

\* one instance and its targets: construction with or without a dataset and a
\* vector field, operate with or without them, and the queries
TargetInsts == {1}

TargetDocs ==
    <<(IdPath :> "doc1" @@ FieldPath("v1") :> VecA @@ FieldPath("v2") :> VecB),
      (IdPath :> "doc2" @@ FieldPath("v1") :> VecB @@ FieldPath("v2") :> VecB)>>

TargetCtorCalls ==
    {CtorArgs(CustomModel("array", "same"), vf, Some(al), ds, None, None) :
        vf \in {None, Some(<<"v1">>)}, al \in {S_a1, S_A2}, ds \in {None, Some("ds1")}}

TargetResponses == {"200", "non-200"}

Kwargs == {EmptyDict, DictSet(EmptyDict, "page_size", 5)}

InitTarget ==
    /\ dicts = [r \in DictRefs |-> EmptyDict]
    /\ inst = [i \in Insts |-> BlankInst]
    /\ pc = [i \in Insts |-> "unconstructed"]
    /\ loc = [i \in Insts |-> BlankLoc]
    /\ calls = [i \in Insts |-> << >>]
    /\ remoteDocs = [d \in Datasets |-> IF d = "ds1" THEN TargetDocs ELSE << >>]
    /\ remoteCentroids = {}
    /\ lastDocWriter = 0
    /\ lastCentroidWriter = 0
    /\ lastGood = [i \in Insts |-> None]
    /\ docUtilsAsserts = TRUE
    /\ caller = [i \in Insts |-> BlankCaller]
    /\ mgr = BlankMgr
    /\ http = BlankHttp
    /\ ner = BlankNer

NextTarget ==
    \/ \E i \in TargetInsts, a \in TargetCtorCalls : Construct(i, a)
    \/ \E i \in TargetInsts, d \in {None, Some("ds1")},
          vf \in {None, Some(<<"v1">>), Some(<<"v2">>)} : OperateStart(i, d, vf)
    \/ \E i \in TargetInsts, resp \in TargetResponses : Fetch(i, resp)
    \/ \E i \in TargetInsts : Fit(i)
    \/ \E i \in TargetInsts, resp \in TargetResponses : Update(i, resp)
    \/ \E i \in TargetInsts, resp \in TargetResponses : Insert(i, resp)
    \/ \E i \in TargetInsts, d \in {None, Some("ds2")}, vf \in {None, Some("v2")},
          al \in {None, Some(S_a2)}, kw \in Kwargs : Closest(i, d, vf, al, kw)
    \/ \E i \in TargetInsts, d \in {None, Some("ds2")}, vf \in {None, Some("v2")},
          al \in {None, Some(S_a2)}, kw \in Kwargs : Furthest(i, d, vf, al, kw)
    \/ \E i \in TargetInsts, vfs \in {None, Some(<< >>), Some(<<"v2">>)},
          g \in {None, Some(<<"title">>)}, d \in {None, Some("ds2")} :
          Aggregate(i, vfs, g, d)

SpecTarget == InitTarget /\ [][NextTarget]_vars

\* two instances whose aliases differ by case only, clustering one dataset
AliasCtorCalls ==
    {CtorArgs(CustomModel("array", "same"), Some(<<"v1">>), Some(al), None, None, None) :
        al \in {S_A2, S_a2}}

NextAlias ==
    \/ \E i \in Insts, a \in AliasCtorCalls : Construct(i, a)
    \/ \E i \in Insts : OperateStart(i, Some("ds1"), None)
    \/ \E i \in Insts : Fetch(i, "200")
    \/ \E i \in Insts : Fit(i)
    \/ \E i \in Insts : Update(i, "200")
    \/ \E i \in Insts : Insert(i, "200")

SpecAlias == InitTarget /\ [][NextAlias]_vars

\* _format_labels on its own: instances with a configured outlier value and
\* outlier label, and arrays of up to MaxLabels raw labels
Codes == {-1, 0, 1, 12}
OutlierValues == {DefaultOutlierValue, 0}
OutlierLabels == {S_outlier, S_cluster_0}

RECURSIVE LabelArrays(_)
LabelArrays(n) ==
    IF n = 0 THEN {<< >>}
    ELSE LET shorter == LabelArrays(n - 1)
         IN shorter \cup {Append(l, c) : l \in {x \in shorter : Len(x) = n - 1},
                                          c \in Codes}

LabelsCtorCalls ==
    {CtorArgs(CustomModel("array", "same"), Some(<<"v1">>), Some(S_a1), None, None, None)}

NextLabels ==
    \/ \E i \in TargetInsts, a \in LabelsCtorCalls,
          ov \in OutlierValues, ol \in OutlierLabels : ConstructWith(i, a, ov, ol)
    \/ \E i \in TargetInsts, labels \in LabelArrays(MaxLabels) :
          FormatLabelsCall(i, labels)

SpecLabels == InitTarget /\ [][NextLabels]_vars

\* every backend, by name in four spellings and as an object, clustering the
\* two documents of ds1. The constructor arguments are those the libraries
\* accept: n_clusters only for a class with that parameter, and for faiss a
\* cluster_config holding d and k.
UpperChar(c) ==
    IF \E i \in 1..Len(Lowers) : Lowers[i] = c
    THEN Uppers[CHOOSE i \in 1..Len(Lowers) : Lowers[i] = c]
    ELSE c
Upper(s) == [i \in 1..Len(s) |-> UpperChar(s[i])]
Spellings(s) ==
    {s, Upper(s), <<s[1], " ">> \o Tail(s), <<s[1], "_">> \o Tail(s)}

FaissConfig == DictSet(DictSet(EmptyDict, "d", 2), "k", 2)

CountedNames ==
    {SklearnBranches[b].name :
        b \in {x \in 1..Len(SklearnBranches) : SklearnBranches[x].default # None}}
UncountedNames ==
    {SklearnBranches[b].name :
        b \in {x \in 1..Len(SklearnBranches) : SklearnBranches[x].default = None}}
        \cup {S_hdbscan, S_community_detection}
FaissNames == {S_faiss, <<"f","a","i","s","s","_","k","m","e","a","n","s">>}

BackendCtorCalls ==
    {CtorArgs(StrValue(sp), Some(<<"v1">>), al, None, n, None) :
        sp \in UNION {Spellings(nm) : nm \in CountedNames},
        al \in {None, Some(S_a1)}, n \in {None, Some(2)}}
    \cup {CtorArgs(StrValue(sp), Some(<<"v1">>), al, None, None, None) :
        sp \in UNION {Spellings(nm) : nm \in UncountedNames}, al \in {None, Some(S_a1)}}
    \cup {CtorArgs(StrValue(sp), Some(<<"v1">>), al, None, None, Some(CallerCfg)) :
        sp \in UNION {Spellings(nm) : nm \in FaissNames}, al \in {None, Some(S_a1)}}
    \cup {CtorArgs(KMeans(DictSet(EmptyDict, "n_clusters", 1)), Some(<<"v1">>), al, None, n, None) :
        al \in {None, Some(S_a1)}, n \in {None, Some(2)}}
    \cup {CtorArgs(m, Some(<<"v1">>), al, None, None, None) :
        m \in {HDBSCAN(EmptyDict), FaissKmeans(FaissConfig), CommunityDetection,
               CustomModel("array", "split")},
        al \in {None, Some(S_a1)}}

InitBackends ==
    /\ dicts = [r \in DictRefs |-> IF r = CallerCfg THEN FaissConfig ELSE EmptyDict]
    /\ inst = [i \in Insts |-> BlankInst]
    /\ pc = [i \in Insts |-> "unconstructed"]
    /\ loc = [i \in Insts |-> BlankLoc]
    /\ calls = [i \in Insts |-> << >>]
    /\ remoteDocs = [d \in Datasets |-> IF d = "ds1" THEN TargetDocs ELSE << >>]
    /\ remoteCentroids = {}
    /\ lastDocWriter = 0
    /\ lastCentroidWriter = 0
    /\ lastGood = [i \in Insts |-> None]
    /\ docUtilsAsserts = TRUE
    /\ caller = [i \in Insts |-> BlankCaller]
    /\ mgr = BlankMgr
    /\ http = BlankHttp
    /\ ner = BlankNer

NextBackends ==
    \/ \E i \in TargetInsts, a \in BackendCtorCalls : Construct(i, a)
    \/ \E i \in TargetInsts : OperateStart(i, Some("ds1"), None)
    \/ \E i \in TargetInsts : Fetch(i, "200")
    \/ \E i \in TargetInsts : Fit(i)
    \/ \E i \in TargetInsts : Update(i, "200")
    \/ \E i \in TargetInsts : Insert(i, "200")

SpecBackends == InitBackends /\ [][NextBackends]_vars

\* _get_centroid_documents on its own: parallel lists of vectors and of the
\* labels _format_labels made of a model's codes. Every integer up to
\* MaxExact in magnitude is a float; Large is the least magnitude at which
\* adding 2 to a float is lost to rounding.
MaxExact == 2 ^ FloatBits
Large == 2 * MaxExact

RECURSIVE Lists(_, _)
Lists(S, n) ==
    IF n = 0 THEN {<< >>} ELSE {Append(l, x) : l \in Lists(S, n - 1), x \in S}

\* the call a caller is about to make: the labels are the canonical labels
\* of a model's codes under the default outlier settings
CentroidCall(vectors, codes) ==
    [BlankCall EXCEPT !.op = "_get_centroid_documents", !.vectors = vectors,
                      !.labels = FormatLabels(codes, DefaultOutlierValue, S_outlier),
                      !.returned = FALSE]

InitCentroids ==
    /\ dicts = [r \in DictRefs |-> EmptyDict]
    /\ inst = [i \in Insts |-> BlankInst]
    /\ pc = [i \in Insts |-> "unconstructed"]
    /\ loc = [i \in Insts |-> BlankLoc]
    /\ calls = [i \in Insts |-> << >>]
    /\ remoteDocs = [d \in Datasets |-> << >>]
    /\ remoteCentroids = {}
    /\ lastDocWriter = 0
    /\ lastCentroidWriter = 0
    /\ lastGood = [i \in Insts |-> None]
    /\ docUtilsAsserts = TRUE
    /\ mgr = BlankMgr
    /\ http = BlankHttp
    /\ ner = BlankNer
    /\ \E n \in 1..MaxLabels :
          \E vectors \in Lists({<<0, 0>>, <<2, 2>>, <<Large, 0>>, <<0 - Large, 0>>}, n), codes \in Lists({-1, 0}, n) :
             caller = [i \in Insts |->
                          IF i \in TargetInsts
                          THEN [BlankCaller EXCEPT !.call = CentroidCall(vectors, codes)]
                          ELSE BlankCaller]

NextCentroids == \E i \in TargetInsts : CentroidDocumentsCall(i)

SpecCentroids == InitCentroids /\ [][NextCentroids]_vars

\* everything of the clustering workflow, before any construction
BlankWorkflow ==
    /\ dicts = [r \in DictRefs |-> EmptyDict]
    /\ inst = [i \in Insts |-> BlankInst]
    /\ pc = [i \in Insts |-> "unconstructed"]
    /\ loc = [i \in Insts |-> BlankLoc]
    /\ calls = [i \in Insts |-> << >>]
    /\ remoteDocs = [d \in Datasets |-> << >>]
    /\ remoteCentroids = {}
    /\ lastDocWriter = 0
    /\ lastCentroidWriter = 0
    /\ lastGood = [i \in Insts |-> None]
    /\ docUtilsAsserts = TRUE
    /\ caller = [i \in Insts |-> BlankCaller]

UpTo(S, n) == UNION {Lists(S, k) : k \in 0..n}

\* a with-block guarded by an OperationManager: any operation, with or without
\* metadata, without post hooks or with up to MaxHooks of them

InitManager ==
    /\ BlankWorkflow
    /\ http = BlankHttp
    /\ ner = BlankNer
    /\ \E operation \in (ClusterOperations \cup {"VectorizeOps"}), metadata \in {None, Some("m1")},
          post_hooks \in {None} \cup {Some(l) : l \in UpTo({"h1", "h2"}, MaxHooks)} :
          mgr = [BlankMgr EXCEPT
                    !.self = NewOperationManager("ds1", operation, metadata, post_hooks),
                    !.pc = "with"]

NextManager ==
    \/ Enter
    \/ \E exc \in {None, Some("BodyError")} : Body(exc)
    \/ \E failAt \in 0..(MaxHooks + 3) : Exit(failAt)

SpecManager == InitManager /\ [][NextManager]_vars

\* a call of OperationManager.clean on up to MaxPairs documents a side; the
\* documents have an _id, a field a, both or neither
DocsOver(ids, values) ==
    {[k \in {} |-> 0]}
        \cup {[k \in {"_id"} |-> i] : i \in ids}
        \cup {[k \in {"a"} |-> v] : v \in values}
        \cup {[k \in {"_id", "a"} |-> IF k = "_id" THEN i ELSE v] : i \in ids, v \in values}


InitClean ==
    /\ BlankWorkflow
    /\ http = BlankHttp
    /\ ner = BlankNer
    /\ \E before_docs \in UpTo(DocsOver({"id1"}, {1}), MaxPairs), after_docs \in UpTo(DocsOver({"id1", "id2"}, {1, 2}), MaxPairs) :
          mgr = [BlankMgr EXCEPT !.clean = [before_docs |-> before_docs,
                                            after_docs |-> after_docs,
                                            result |-> << >>, state |-> "called"]]

NextClean == CleanCall

SpecClean == InitClean /\ [][NextClean]_vars

\* a call of make_http_request with a method and an output format, answered
\* attempt by attempt

InitTransport ==
    /\ BlankWorkflow
    /\ mgr = BlankMgr
    /\ ner = BlankNer
    /\ \E endpoint \in {"/datasets/list", "/datasets/ds1/documents/list"},
          method \in {"GET", "POST", "PUT"}, output_format \in {"json", "raw"} :
          http = [BlankHttp EXCEPT !.endpoint = endpoint, !.method = method,
                                   !.output_format = output_format,
                                   !.outcome = "running"]

NextTransport == \E resp \in Responses : HttpTry(resp)

SpecTransport == InitTransport /\ [][NextTransport]_vars

\* a call of extract_ner on a text for which the classifier returns up to
\* MaxTokens tokens
NerTokens ==
    {[entity |-> <<"B","-","O","R","G">>, word |-> <<"H","o","t">>], [entity |-> <<"I","-","O","R","G">>, word |-> <<"W","h","e","e","l">>],
     [entity |-> <<"I","-","O","R","G">>, word |-> <<"#","#","s">>], [entity |-> <<"B","-","L","O","C">>, word |-> <<"P","a","r","i","s">>]}

InitNer ==
    /\ BlankWorkflow
    /\ mgr = BlankMgr
    /\ http = BlankHttp
    /\ \E entities \in UpTo(NerTokens, MaxTokens) :
          ner = [BlankNer EXCEPT !.entities = entities, !.state = "called"]

NextNer == ExtractNerCall

SpecNer == InitNer /\ [][NextNer]_vars

----------------------------------------------------------------------------
(* Properties *)

OpsOf(log) == [k \in 1..Len(log) |-> log[k].op]
IsPrefix(s, t) == Len(s) <= Len(t) /\ \A k \in 1..Len(s) : s[k] = t[k]
WriteCalls(log) == {k \in 1..Len(log) : log[k].op \in {"update", "insert"}}

\* the cluster-label paths a document carries
LabelPaths(doc) == {p \in DOMAIN doc : Len(p) = 3 /\ p[1] = "_cluster_"}

\* C1: in every run of operate the remote calls are, in this order, the fetch,
\* the document write-back and the centroid upsert; the upsert is issued only
\* after the write-back has returned; a run that returns has made all three;
\* and the three target one dataset, one vector field and one alias.
C1_CallOrderAndTarget ==
    \A i \in Insts :
        LET log == calls[i]
        IN /\ IsPrefix(OpsOf(log), <<"fetch", "update", "insert">>)
           /\ pc[i] = "done" => Len(log) = 3 /\ \A k \in 1..3 : log[k].returned
           /\ \A k \in 2..Len(log) : log[k - 1].returned
           /\ \A k \in 1..Len(log) : log[k].dataset_id = log[1].dataset_id
           /\ Len(log) >= 2 =>
                \A d \in 1..Len(log[2].docs) : \A p \in LabelPaths(log[2].docs[d]) :
                    /\ \E f \in 1..Len(log[1].vector_fields[1]) :
                          p[2] = log[1].vector_fields[1][f]
                    /\ p[3] = inst[i].alias
           /\ Len(log) = 3 =>
                /\ log[3].alias = inst[i].alias
                /\ \E f \in 1..Len(log[1].vector_fields[1]) :
                      log[3].vector_fields = Some(<<log[1].vector_fields[1][f]>>)
                /\ \A d \in 1..Len(log[2].docs) : \A p \in LabelPaths(log[2].docs[d]) :
                      /\ Some(<<p[2]>>) = log[3].vector_fields
                      /\ p[3] = log[3].alias

\* a run that has labelled documents, written them back and upserted centroids
C1_Witness ==
    \E i \in Insts :
        /\ pc[i] = "done"
        /\ Len(calls[i]) = 3
        /\ \E d \in 1..Len(calls[i][2].docs) : LabelPaths(calls[i][2].docs[d]) # {}
        /\ calls[i][3].cluster_centers # << >>

\* the run of instance i has fetched its documents and they hold no vector
ZeroVectorRun(i) ==
    /\ pc[i] \in {"update", "insert", "done", "error"}
    /\ loc[i].vector_field # None
    /\ ~(pc[i] = "error" /\ loc[i].err \in {"TypeError", "RequestException"}
                         /\ loc[i].update_result = "")
    /\ WithField(loc[i].documents, loc[i].vector_field[1]) = << >>

\* C2: a run whose fetched documents yield zero vectors fails, and makes
\* neither the update_documents call nor the centroid upsert, whatever the model.
C2_EmptyInputFailsBeforeWrites ==
    \A i \in Insts :
        ZeroVectorRun(i) => pc[i] = "error" /\ WriteCalls(calls[i]) = {}

\* C3: construction never succeeds with a model name that no branch of
\* _get_model recognizes: no constructed instance holds the bare name as model.
C3_UnknownNameRejected ==
    \A i \in Insts : pc[i] # "unconstructed" => ~inst[i].model.isstr

\* the model of instance i is a custom object whose label array is too long
WrongLengthModel(i) ==
    /\ pc[i] # "unconstructed"
    /\ inst[i].package = "custom"
    /\ ~inst[i].model.isstr
    /\ inst[i].model.ret = "long"

\* C4: when the custom model returns a label array whose length is not the
\* number of vectors, operate fails with the shape error and makes neither
\* the update_documents call nor the centroid upsert.
C4_ShapeMismatchFailsBeforeWrites ==
    \A i \in Insts :
        WrongLengthModel(i) =>
            /\ pc[i] \in {"idle", "fetch", "fit", "error"}
            /\ WriteCalls(calls[i]) = {}
            /\ (pc[i] = "error" /\ loc[i].err \notin {"TypeError", "RequestException",
                                                      "UnboundLocalError"})
                  => loc[i].err = "ValueError: incorrect shape"

\* a run that the shape check has stopped
C4_Witness ==
    \E i \in Insts :
        /\ WrongLengthModel(i)
        /\ pc[i] = "error"
        /\ loc[i].err = "ValueError: incorrect shape"
        /\ loc[i].documents # << >>

\* C5: operate never returns normally after a write that failed: when it has
\* returned, the write-back and the centroid upsert both got their answer.
C5_FailedWriteIsSurfaced ==
    \A i \in Insts :
        /\ pc[i] = "done" => loc[i].update_result = "return" /\ loc[i].insert_result = "return"
        /\ pc[i] = "insert" => loc[i].update_result = "return"

\* C6: when _fit_predict has run, every document that contains the vector
\* field carries the label the model gave for its own vector, and every
\* document without the field carries no cluster label.
C6_LabelsFollowOwnVectors ==
    \A i \in Insts :
        pc[i] \in {"update", "insert", "done"} =>
            LET docs == loc[i].documents
                vf == loc[i].vector_field[1]
                have == WithField(docs, vf)
                vectors == [k \in 1..Len(have) |-> GetField(FieldPath(vf), docs[have[k]])]
                labels == FormatLabels(FitPredictLabels(inst[i], vectors).labels,
                                       inst[i].outlier_value, inst[i].outlier_label)
                field == ClusterField(vf, inst[i].alias)
            IN /\ \A k \in 1..Len(have) :
                     /\ IsField(field, docs[have[k]])
                     /\ GetField(field, docs[have[k]]) = labels[k]
               /\ \A j \in 1..Len(docs) :
                     ~IsField(FieldPath(vf), docs[j]) => ~IsField(field, docs[j])

\* the centroid records as operate computed them
CentroidSet(centroid_documents) ==
    {centroid_documents[k] : k \in 1..Len(centroid_documents)}

\* the stored centroid records of a namespace, as centroid documents
StoredCentroidDocs(dataset_id, vector_field, alias) ==
    {[_id |-> r._id, centroid_vector |-> r.centroid_vector] :
        r \in StoredCentroids(remoteCentroids, dataset_id, vector_field, alias)}

\* the run of instance i has returned and both its writes were acknowledged
CompletedRun(i) ==
    /\ pc[i] = "done"
    /\ loc[i].update_result = "return"
    /\ loc[i].insert_result = "return"

\* C7: when a run has completed and nobody has written centroids since, the
\* centroids stored for its dataset, vector field and alias are exactly the
\* centroids of that run, as many as the clusters it produced.
C7_StoredCentroidsAreTheRuns ==
    \A i \in Insts :
        (CompletedRun(i) /\ lastCentroidWriter = i) =>
            LET stored == StoredCentroidDocs(loc[i].dataset_id[1], loc[i].vector_field[1],
                                             inst[i].alias)
            IN /\ stored = CentroidSet(loc[i].centroid_documents)
               /\ Cardinality(stored) = Len(loc[i].centroid_documents)

SameTargetRuns(i, j) ==
    /\ i # j
    /\ CompletedRun(i) /\ CompletedRun(j)
    /\ loc[i].dataset_id = loc[j].dataset_id
    /\ loc[i].vector_field = loc[j].vector_field
    /\ inst[i].alias = inst[j].alias

\* C9: after two instances have run on one dataset, vector field and alias,
\* the stored labels are those of the run that wrote documents last and the
\* stored centroids are those of the run that upserted last.
C9_LastWriterWins ==
    \A i, j \in Insts :
        SameTargetRuns(i, j) =>
            LET dw == lastDocWriter
                cw == lastCentroidWriter
                ds == loc[i].dataset_id[1]
                vf == loc[i].vector_field[1]
                field == ClusterField(vf, inst[i].alias)
            IN /\ \A k \in 1..Len(loc[dw].documents) :
                     LET posted == loc[dw].documents[k]
                     IN \A r \in 1..Len(remoteDocs[ds]) :
                           remoteDocs[ds][r][IdPath] = posted[IdPath] =>
                               /\ IsField(field, posted) = IsField(field, remoteDocs[ds][r])
                               /\ IsField(field, posted) =>
                                     remoteDocs[ds][r][field] = posted[field]
               /\ StoredCentroidDocs(ds, vf, inst[i].alias)
                     = CentroidSet(loc[cw].centroid_documents)

\* C10: constructing an instance changes neither the caller's cluster_config
\* mapping nor the attributes and hyperparameter configuration of another instance.
C10_ConfigIsOwned ==
    [][\A i \in Insts :
          (pc[i] = "unconstructed" /\ pc'[i] = "idle") =>
              /\ dicts'[CallerCfg] = dicts[CallerCfg]
              /\ \A j \in Insts \ {i} :
                    pc[j] # "unconstructed" =>
                        /\ inst'[j] = inst[j]
                        /\ dicts'[inst[j].config] = dicts[inst[j].config]]_vars

----------------------------------------------------------------------------
(* Targets, queries and labels *)

\* the fetch of the latest run of instance i
FetchOf(i) == calls[i][1]

\* C11: operate uses the dataset given as argument, else the dataset the caller
\* used last (constructor or earlier operate), and likewise the vector field;
\* the fetch and both writes of the run go to that dataset and vector field.
C11_TargetIsArgumentElseLastUsed ==
    \A i \in Insts :
        calls[i] # << >> =>
            /\ FetchOf(i).dataset_id = caller[i].last_used.dataset_id
            /\ caller[i].last_used.vector_field # None =>
                  /\ FetchOf(i).vector_fields # None
                  /\ FetchOf(i).vector_fields[1][1] = caller[i].last_used.vector_field[1]
            /\ \A k \in 1..Len(calls[i]) :
                  /\ calls[i][k].dataset_id = caller[i].last_used.dataset_id
                  /\ calls[i][k].op = "insert" =>
                        calls[i][k].vector_fields = Some(<<caller[i].last_used.vector_field[1]>>)

\* the latest operate of instance i had no dataset or no vector field to use:
\* none given, none used before
NoTarget(i) ==
    /\ calls[i] # << >>
    /\ \/ caller[i].last_used.dataset_id = None
       \/ caller[i].last_used.vector_field = None

\* C12: a run with no dataset or no vector field to use makes no remote write
\* and ends with MissingTargetError.
C12_MissingTargetFailsFirst ==
    \A i \in Insts :
        NoTarget(i) =>
            /\ WriteCalls(calls[i]) = {}
            /\ pc[i] \in {"done", "error"} =>
                  pc[i] = "error" /\ loc[i].err = "MissingTargetError"

\* C13: aggregate without a dataset, on an instance constructed without one and
\* never run, raises "Please supply dataset." and sends no request.
C13_AggregateWithoutDatasetFails ==
    \A i \in Insts :
        LET c == caller[i].call
        IN (/\ c.op = "aggregate"
            /\ c.dataset_id = None
            /\ caller[i].ctor[1].dataset_id = None
            /\ calls[i] = << >>) =>
               c.err = "Please supply dataset." /\ c.request = None

\* C14: closest and furthest send each argument given as it is; for an argument
\* omitted they send the dataset and the vector field of the latest operate,
\* or the constructor's when operate has not run, and the constructor's alias;
\* the other keyword arguments are sent unchanged.
C14_QueryDefaults ==
    \A i \in Insts :
        LET c == caller[i].call
            ctor == caller[i].ctor[1]
            ran == calls[i] # << >>
        IN c.op \in {"closest", "furthest"} =>
             LET req == c.request[1]
             IN /\ req.dataset_id =
                      IF c.dataset_id # None THEN c.dataset_id
                      ELSE IF ran THEN FetchOf(i).dataset_id ELSE ctor.dataset_id
                /\ c.vector_field # None => req.vector_fields = Some(<<c.vector_field>>)
                /\ (c.vector_field = None /\ ran /\ FetchOf(i).vector_fields # None) =>
                      req.vector_fields = Some(<<Some(FetchOf(i).vector_fields[1][1])>>)
                /\ (c.vector_field = None /\ ~ran) =>
                      req.vector_fields =
                          Some(<<IF ctor.vector_fields = None THEN None
                                 ELSE Some(ctor.vector_fields[1][1])>>)
                /\ req.alias = IF c.alias # None THEN c.alias[1] ELSE ctor.alias[1]
                /\ req.params = c.kwargs

\* C15: a call of closest, furthest or aggregate that fills in an omitted
\* dataset or vector field from the instance prints a notice naming it.
C15_DefaultsAreAnnounced ==
    \A i \in Insts :
        LET c == caller[i].call
        IN /\ (c.op \in {"closest", "furthest", "aggregate"} /\ c.request # None
                /\ c.dataset_id = None) => "dataset" \in c.printed
           /\ (c.op \in {"closest", "furthest"} /\ c.vector_field = None) =>
                  "vector_field" \in c.printed

\* C16: after a run of operate on vector field v has completed, aggregate
\* without vector fields sends its request for the alias of the instance and
\* for [v].
C16_AggregateScope ==
    \A i \in Insts :
        LET c == caller[i].call
        IN (/\ c.op = "aggregate"
            /\ c.request # None
            /\ c.vector_fields = None \/ c.vector_fields[1] = << >>
            /\ CompletedRun(i)) =>
               /\ c.request[1].alias = inst[i].alias
               /\ c.request[1].vector_fields = Some(<<FetchOf(i).vector_fields[1][1]>>)

\* C17: every document a run writes back with a label has it in the field
\* _cluster_.<v>.<a>, a being the alias as the caller passed it.
C17_LabelFieldUsesAliasAsPassed ==
    \A i \in Insts :
        \A k \in 1..Len(calls[i]) :
            calls[i][k].op = "update" =>
                \A d \in 1..Len(calls[i][k].docs) :
                    \A p \in LabelPaths(calls[i][k].docs[d]) :
                        p = ClusterField(loc[i].vector_field[1], caller[i].ctor[1].alias[1])

\* the label fields the latest run of instance i, a completed one, wrote
WrittenLabelPaths(i) ==
    UNION {LabelPaths(calls[i][2].docs[d]) : d \in 1..Len(calls[i][2].docs)}

\* the namespace the latest run of instance i put its centroids in
CentroidNamespace(i) ==
    <<calls[i][3].dataset_id, calls[i][3].vector_fields, calls[i][3].alias>>

\* C18: two completed runs on one dataset whose vector field or alias, as
\* passed, differ have written their labels to different fields and their
\* centroids to different namespaces.
C18_NamespacesAreDisjoint ==
    \A i, j \in Insts :
        (/\ i # j
         /\ CompletedRun(i) /\ CompletedRun(j)
         /\ loc[i].dataset_id = loc[j].dataset_id
         /\ <<loc[i].vector_field, caller[i].ctor[1].alias>>
               # <<loc[j].vector_field, caller[j].ctor[1].alias>>) =>
            /\ WrittenLabelPaths(i) \cap WrittenLabelPaths(j) = {}
            /\ CentroidNamespace(i) # CentroidNamespace(j)

\* the integer a decimal numeral denotes
DigitValue(c) == (CHOOSE k \in 1..Len(Digits) : Digits[k] = c) - 1
IsDigit(c) == \E k \in 1..Len(Digits) : Digits[k] = c

RECURSIVE DecimalValue(_)
DecimalValue(s) ==
    IF s = << >> THEN 0
    ELSE 10 * DecimalValue(SubSeq(s, 1, Len(s) - 1)) + DigitValue(s[Len(s)])

IsNumeral(s) ==
    LET digits == IF s # << >> /\ s[1] = "-" THEN Tail(s) ELSE s
    IN digits # << >> /\ \A k \in 1..Len(digits) : IsDigit(digits[k])

NumeralValue(s) == IF s[1] = "-" THEN 0 - DecimalValue(Tail(s)) ELSE DecimalValue(s)

\* C19: _format_labels returns one label per raw label, in order: the outlier
\* label of the instance for the outlier value of the instance, and for any
\* other code c the text "cluster-" followed by the decimal numeral of c; the
\* call leaves the instance as it was.
C19_FormatLabels ==
    [][\A i \in Insts :
          (caller'[i].call # caller[i].call /\ caller'[i].call.op = "_format_labels") =>
              LET labels == caller'[i].call.labels
                  out == caller'[i].call.result
                  n == Len(S_cluster_)
              IN /\ inst' = inst /\ dicts' = dicts
                 /\ Len(out) = Len(labels)
                 /\ \A k \in 1..Len(labels) :
                       IF labels[k] = inst[i].outlier_value
                       THEN out[k] = inst[i].outlier_label
                       ELSE /\ Len(out[k]) > n
                            /\ SubSeq(out[k], 1, n) = S_cluster_
                            /\ IsNumeral(SubSeq(out[k], n + 1, Len(out[k])))
                            /\ NumeralValue(SubSeq(out[k], n + 1, Len(out[k]))) = labels[k]]_vars

C19_Witness ==
    \E i \in Insts :
        LET c == caller[i].call
        IN /\ c.op = "_format_labels"
           /\ inst[i].outlier_value = 0
           /\ c.labels = <<12, 0, -1>>
           /\ c.result = <<S_cluster_ \o <<"1", "2">>, inst[i].outlier_label,
                           S_cluster_ \o <<"-", "1">>>>

\* C20: _format_labels gives as many distinct labels as there are distinct raw
\* codes, whatever outlier value and outlier label the instance has.
C20_DistinctLabelsMatchDistinctCodes ==
    \A i \in Insts :
        LET c == caller[i].call
        IN c.op = "_format_labels" =>
              Cardinality({c.result[k] : k \in 1..Len(c.result)})
                  = Cardinality({c.labels[k] : k \in 1..Len(c.labels)})

----------------------------------------------------------------------------
(* Centroid records *)

CentroidCalls ==
    {i \in Insts : caller[i].call.op = "_get_centroid_documents" /\ caller[i].call.returned}

\* the positions of the rows carrying a label
RowsOf(labels, label) == {k \in 1..Len(labels) : labels[k] = label}

\* no sum of rows of a group can round: the magnitudes of each component add
\* up to no more than the largest integer below which every integer is a float
RECURSIVE AbsSum(_, _, _)
AbsSum(vectors, idx, c) ==
    IF idx = {} THEN 0
    ELSE LET k == CHOOSE x \in idx : TRUE
         IN Abs(vectors[k][c]) + AbsSum(vectors, idx \ {k}, c)

ExactSums(vectors, labels) ==
    \A k \in 1..Len(labels) : \A c \in 1..Len(vectors[k]) :
        AbsSum(vectors, RowsOf(labels, labels[k]), c) <= MaxExact

\* the sum of the integers of a set of rows, without rounding
RECURSIVE PlainSum(_, _, _)
PlainSum(vectors, idx, c) ==
    IF idx = {} THEN 0
    ELSE LET k == CHOOSE x \in idx : TRUE
         IN vectors[k][c] + PlainSum(vectors, idx \ {k}, c)

RecordSet(records) == {records[k] : k \in 1..Len(records)}

Orders(n) == {p \in [1..n -> 1..n] : \A a, b \in 1..n : p[a] = p[b] => a = b}

Permuted(seq, p) == [k \in 1..Len(seq) |-> seq[p[k]]]

\* C22 as the specification states it: one and the same permutation applied
\* to the vectors and to their labels yields the same set of centroid records
C22_OrderIndependent ==
    \A i \in CentroidCalls :
        LET call == caller[i].call
        IN \A p \in Orders(Len(call.labels)) :
              RecordSet(GetCentroidDocuments(Permuted(call.vectors, p),
                                             Permuted(call.labels, p)))
                 = RecordSet(call.result)

\* C22, amended: one and the same permutation applied to the vectors and to
\* their labels yields records with the same identifiers, and the same set of
\* records (identifiers and mean vectors) whenever no sum of a group's rows
\* rounds.
C22_OrderIndependentUpToRounding ==
    \A i \in CentroidCalls :
        LET call == caller[i].call
        IN \A p \in Orders(Len(call.labels)) :
              LET permuted == GetCentroidDocuments(Permuted(call.vectors, p),
                                                   Permuted(call.labels, p))
              IN /\ {r._id : r \in RecordSet(permuted)}
                       = {r._id : r \in RecordSet(call.result)}
                 /\ ExactSums(call.vectors, call.labels)
                       => RecordSet(permuted) = RecordSet(call.result)

\* a call whose rows differ within a group and across groups, with sums that
\* do not round: its permutations are other inputs with the same records
C22_Witness ==
    \E i \in CentroidCalls :
        LET call == caller[i].call
        IN /\ Len(call.labels) = 3
           /\ call.labels[1] = call.labels[3]
           /\ call.labels[1] # call.labels[2]
           /\ call.vectors[1] # call.vectors[3]
           /\ call.vectors[1] # call.vectors[2]
           /\ ExactSums(call.vectors, call.labels)
           /\ Len(call.result) = 2

----------------------------------------------------------------------------
(* Backends *)

Constructed == {i \in Insts : pc[i] # "unconstructed"}

\* the packages _fit_predict has a branch for
FitPredictPackages == {"sklearn", "hdbscan", "faiss", "sentencetransformers", "custom"}

\* the model argument has one of the supported call shapes: an object with
\* fit_predict, with fit and labels_, with train and assign, a callable, or
\* the name of one of them
BranchNames ==
    {SklearnBranches[b].name : b \in 1..Len(SklearnBranches)}
        \cup {S_hdbscan, <<"c","o","m","m","u","n","i","t","y","d","e","t","e","c","t","i","o","n">>}

NamesBranch(str) ==
    NormalizeName(str) \in BranchNames \/ Contains(NormalizeName(str), S_faiss)

SupportedShape(model) ==
    IF model.isstr THEN NamesBranch(model.str)
    ELSE \/ "fit_predict" \in model.methods
         \/ {"fit", "labels_"} \subseteq model.methods
         \/ {"train", "assign"} \subseteq model.methods
         \/ "__call__" \in model.methods

FitPassed(i) == pc[i] \in {"update", "insert", "done"}

\* C23: for every supported backend call shape, construction assigns a
\* package that _fit_predict has a branch for, the fit step obtains the raw
\* labels through that branch (it does not fail for want of a method or of a
\* branch), and every document with a vector gets exactly one label.
C23_EveryBackendIsDispatched ==
    \A i \in Constructed :
        SupportedShape(caller[i].ctor[1].model) =>
            /\ inst[i].package \in FitPredictPackages
            /\ loc[i].failed_step = "fit" =>
                  loc[i].err \notin {"AttributeError", "TypeError", "UnboundLocalError"}
            /\ FitPassed(i) =>
                  \A k \in 1..Len(loc[i].documents) :
                      IsField(FieldPath(loc[i].vector_field[1]), loc[i].documents[k])
                         => IsField(ClusterField(loc[i].vector_field[1], inst[i].alias),
                                    loc[i].documents[k])

\* C24: without an alias argument the alias is "<model name>-<n_clusters>"
\* for a model that has a cluster count, n_clusters being the argument when
\* one was supplied and the model's own count otherwise, and the bare model
\* name for a model without a cluster count; an alias argument is used
\* instead of the generated one. The model name is read without regard to
\* case (a class MyModel gives the alias "mymodel").
C24_GeneratedAlias ==
    \A i \in Constructed :
        LET a == caller[i].ctor[1]
            model == inst[i].model
            own == IF HasAttr(model.n_clusters) THEN model.n_clusters[1] ELSE model.k[1]
            counted == HasAttr(model.n_clusters) \/ HasAttr(model.k)
        IN inst[i].alias =
              IF a.alias # None THEN a.alias[1]
              ELSE IF counted
              THEN Lower(inst[i].model_name) \o <<"-">>
                   \o OptIntStr(IF a.n_clusters # None THEN a.n_clusters ELSE own)
              ELSE Lower(inst[i].model_name)

\* C28: a name that, without regard to case, spaces and underscores, is the
\* name of a branch of _get_model (or contains faiss) resolves to a model
\* object of that branch, not to the name string: the object's class (for
\* community detection, the function) is the one of that name.
C28_NamesResolveToTheirBranch ==
    \A i \in Constructed :
        LET a == caller[i].ctor[1]
            name == NormalizeName(a.model.str)
            model == inst[i].model
            made == IF model.fname # << >> THEN model.fname
                    ELSE LastAfter(model.clspath, ".")
        IN a.model.isstr /\ NamesBranch(a.model.str) =>
              /\ ~model.isstr
              /\ IF Contains(name, S_faiss) THEN Contains(model.clspath, S_faiss)
                 ELSE NormalizeName(made) = name

----------------------------------------------------------------------------
(* OperationManager *)

Left == mgr.pc = "left"

\* the positions of the log at which a call of this kind was made
LogAt(kind) == {k \in 1..Len(mgr.log) : mgr.log[k].call = kind}

HookLog == SelectSeq(mgr.log, LAMBDA e : e.call = "hook")

\* C25: __exit__ makes its calls in a fixed order, each once: for a ClusterOps
\* or SubClusterOps operation get_centroid_documents, then insert_centroids;
\* then every post hook in list order; then store_operation_metadata with the
\* manager's dataset and metadata. No centroid call is made for any other
\* operation, and the metadata is stored only after the centroid insertion
\* and all hooks. A call that raises ends __exit__: the calls made are then
\* the first calls of that order.
C25_ExitOrder ==
    Left =>
        LET hooks == mgr.self.post_hooks
            clustering == mgr.self.operation \in ClusterOperations
            first == IF clustering THEN 2 ELSE 0
        IN /\ \A kind \in {"get_centroid_documents", "insert_centroids",
                           "store_operation_metadata"} : Cardinality(LogAt(kind)) <= 1
           /\ ~clustering =>
                 LogAt("get_centroid_documents") \cup LogAt("insert_centroids") = {}
           /\ clustering /\ Len(mgr.log) >= 1 => LogAt("get_centroid_documents") = {1}
           /\ clustering /\ Len(mgr.log) >= 2 => LogAt("insert_centroids") = {2}
           /\ IsPrefix([k \in 1..Len(HookLog) |-> HookLog[k].hook], hooks)
           /\ LogAt("hook") = {k \in (first + 1)..(first + Len(hooks)) : k <= Len(mgr.log)}
           /\ \A k \in LogAt("store_operation_metadata") :
                 /\ k = first + Len(hooks) + 1
                 /\ k = Len(mgr.log)
                 /\ mgr.log[k].dataset = mgr.self.dataset
                 /\ mgr.log[k].values = mgr.self.metadata
           /\ mgr.exit_exc = 0 => Len(mgr.log) = first + Len(hooks) + 1
           /\ mgr.exit_exc # 0 => Len(mgr.log) = mgr.exit_exc

\* __exit__ of a manager of a cluster operation with two post hooks returned
C25_Witness ==
    /\ Left
    /\ mgr.exit_exc = 0
    /\ mgr.self.operation = "ClusterOps"
    /\ mgr.self.post_hooks = <<"h2", "h1">>
    /\ Len(mgr.log) = 5

\* C26: __exit__ does not look at the exception information: when the body
\* raised and no call of __exit__ raises, the centroids are inserted (for a
\* cluster operation), every post hook runs and the metadata is stored, as
\* when the body did not raise; and __exit__ never suppresses the body's
\* exception, which the with statement raises once __exit__ has returned.
C26_ExitIgnoresException ==
    Left /\ mgr.exit_exc = 0 =>
        /\ mgr.self.operation \in ClusterOperations => LogAt("insert_centroids") # {}
        /\ [k \in 1..Len(HookLog) |-> HookLog[k].hook] = mgr.self.post_hooks
        /\ LogAt("store_operation_metadata") # {}
        /\ mgr.body_exc # None <=> mgr.raised = "body"
        /\ mgr.body_exc = None <=> mgr.raised = ""

\* the body raised, __exit__ of a cluster operation's manager ran to its end,
\* and the body's exception reached the caller
C26_Witness ==
    /\ Left
    /\ mgr.exit_exc = 0
    /\ mgr.body_exc # None
    /\ mgr.self.operation = "SubClusterOps"
    /\ mgr.self.post_hooks # << >>
    /\ mgr.raised = "body"

\* C30: clean returns one document per positionally paired (before, after)
\* documents, in order; the document holds exactly the entries of the
\* after-document whose key is absent from the before-document, and the
\* after-document's _id entry whenever it has one; an entry whose key the
\* before-document has is dropped even if its value changed; the inputs are
\* not modified.
C30_CleanState ==
    mgr.clean.state = "returned" =>
        LET before == mgr.clean.before_docs
            after == mgr.clean.after_docs
            result == mgr.clean.result
        IN /\ Len(result) <= Len(before) /\ Len(result) <= Len(after)
           /\ Len(result) = Len(before) \/ Len(result) = Len(after)
           /\ \A p \in 1..Len(result) :
                 /\ \A key \in {"_id", "a"} :
                       key \in DOMAIN result[p] <=>
                          /\ key \in DOMAIN after[p]
                          /\ key = "_id" \/ key \notin DOMAIN before[p]
                 /\ DOMAIN result[p] \subseteq {"_id", "a"}
                 /\ \A key \in DOMAIN result[p] : result[p][key] = after[p][key]

C30_Clean ==
    /\ []C30_CleanState
    /\ [][/\ mgr'.clean.before_docs = mgr.clean.before_docs
           /\ mgr'.clean.after_docs = mgr.clean.after_docs]_vars

\* a call returned for two pairs, one of them with a changed value under a
\* key both documents have, an _id both have, and a key only the
\* after-document has in the other pair
C30_Witness ==
    /\ mgr.clean.state = "returned"
    /\ Len(mgr.clean.result) = 2
    /\ \E p, q \in 1..2 :
          /\ "a" \in DOMAIN mgr.clean.before_docs[p]
          /\ "a" \in DOMAIN mgr.clean.after_docs[p]
          /\ mgr.clean.after_docs[p]["a"] # mgr.clean.before_docs[p]["a"]
          /\ "_id" \in DOMAIN mgr.clean.before_docs[p]
          /\ DOMAIN mgr.clean.result[p] = {"_id"}
          /\ "a" \notin DOMAIN mgr.clean.before_docs[q]
          /\ "a" \in DOMAIN mgr.clean.result[q]

----------------------------------------------------------------------------
(* Transport.make_http_request on its own *)

\* the answer is a response with status 200 that the call can return: its
\* body decodes, or the call does not ask for json
Usable(resp) == resp = "200" \/ (resp = "200 no json" /\ http.output_format # "json")

UsableAnswers == {k \in 1..Len(http.answers) : Usable(http.answers[k])}

\* C27: a GET or POST call sends at most number_of_retries requests, one per
\* attempt; it returns the result of the first attempt answered with status
\* 200 and sends nothing after it; when no attempt is answered with status
\* 200 (a non-200 response, a connection error or an undecodable body each
\* time) it stops after exactly number_of_retries attempts and returns no
\* result, without raising.
C27_RetriesThenNone ==
    http.method \in {"GET", "POST"} =>
        /\ Len(http.requests) <= NumRetries
        /\ Len(http.requests) = http.attempt
        /\ http.outcome = "return" <=> UsableAnswers = {Len(http.answers)}
        /\ http.outcome \in {"running", "none"} <=> UsableAnswers = {}
        /\ http.outcome = "none" => Len(http.requests) = NumRetries
        /\ http.outcome # "raise"

----------------------------------------------------------------------------
(* ExtractNER.extract_ner *)

IsB(token) == StartsWith(token.entity, S_B_)
IsI(token) == StartsWith(token.entity, S_I_)

\* every I- token continues an entity: it follows a B- or an I- token
WellFormed(entities) ==
    \A k \in 1..Len(entities) :
        IsI(entities[k]) => k > 1 /\ (IsB(entities[k - 1]) \/ IsI(entities[k - 1]))

\* the last token of the entity that begins at b
EntityEnd(entities, b) ==
    CHOOSE e \in b..Len(entities) :
        /\ \A k \in (b + 1)..e : IsI(entities[k])
        /\ e = Len(entities) \/ ~IsI(entities[e + 1])

\* the words of the tokens b..e joined: a word piece "##x" is appended as
\* "x", any other word after a space
RECURSIVE JoinedWord(_, _, _)
JoinedWord(entities, b, e) ==
    IF e = b THEN entities[b].word
    ELSE JoinedWord(entities, b, e - 1)
         \o (IF Contains(entities[e].word, S_hashes)
             THEN RemoveSub(entities[e].word, S_hashes)
             ELSE <<" ">> \o entities[e].word)

\* the entities of a classifier output: one per B- token, in order
EntitiesOf(entities) ==
    LET starts == SortedSeq({k \in 1..Len(entities) : IsB(entities[k])})
    IN [n \in 1..Len(starts) |->
           [word |-> JoinedWord(entities, starts[n], EntityEnd(entities, starts[n])),
            type |-> SubSeq(entities[starts[n]].entity, 3,
                            Len(entities[starts[n]].entity))]]

\* C29: extract_ner records every entity of the classifier output exactly
\* once: a B- token not followed by an I- token with its own word and its
\* type without the prefix, a B- token followed by I- tokens once with the
\* joined word; the number of recorded entities is the number of B- tokens.
C29_EveryEntityOnce ==
    ner.state \in {"returned", "raised"} /\ WellFormed(ner.entities) =>
        /\ ner.state = "returned"
        /\ Len(ner.new_entities) = Cardinality({k \in 1..Len(ner.entities) :
                                                  IsB(ner.entities[k])})
        /\ ner.new_entities = EntitiesOf(ner.entities)

====
